---- MODULE Spec2Model ----
(***************************************************************************)
(* Steward tool layer: the workspace boundary guard, create_file,          *)
(* grep_search's traversal and output, the execute tool, truncateOutput,   *)
(* run_js, apply_patch, manage_todo, buildMatcher, the git tools and the   *)
(* agent loop of runSteward.                                               *)
(*                                                                         *)
(* Paths are sequences of component names; <<>> is "/".  The filesystem is *)
(* a function from the paths that exist to their entry.                    *)
(***************************************************************************)
EXTENDS Integers, Sequences, FiniteSets, TLC

VARIABLES
  fsys,      \* the filesystem: existing path -> entry
  fsOps,     \* how many times the filesystem was changed
  call,      \* the tool call that just ended, with its outcome
  req,       \* execute: the arguments and environment of the running call
  epc,       \* execute: where the handler stands
  child,     \* execute: the spawned process
  pipes,     \* execute: chunks sitting in the stdout / stderr pipes
  got,       \* execute: chunks the handler has read from each stream
  timer,     \* execute: the abort timer
  audit,     \* execute: records appended to the audit log by the running call
  appendFailed, \* execute: an append to the audit log failed during the call
  result,    \* execute: what the call returned or raised
  tin,       \* truncateOutput: the text and the byte cap it is given
  tout,      \* truncateOutput: what it returned
  jreq,      \* run_js: the arguments of the running call
  jpc,       \* run_js: where the handler stands
  ctx,       \* run_js: the runtime and context of the latest call
  ip,        \* run_js: the statement of the script evalCode is at
  jlogs,     \* run_js: the console lines captured
  timedOut,  \* run_js: the timedOut flag
  elapsed,   \* run_js: Date.now() - started
  jstatus,   \* run_js: the status
  executed,  \* run_js: executePendingJobs has run a job in this round
  host,      \* run_js: fetches under way in the host, by state of their timer
  jout,      \* run_js: what the call returned or raised
  left,      \* run_js: an earlier call ended with a global of its own defined
  gin,       \* grep_search: the files met and the options
  gout,      \* grep_search: the entries returned
  pfs,       \* apply_patch: the filesystem the tool works on
  pcall,     \* apply_patch: the call that just ended, with its outcome
  store,     \* manage_todo: the content of .steward-todo.json
  todos,     \* manage_todo: the abstract list the calls describe
  tcall,     \* manage_todo: the call that just ended, with its outcome
  ropts,     \* runSteward: the options of the run
  rpc,       \* runSteward: where the loop stands
  step,      \* runSteward: the loop counter
  attempt,   \* runSteward: the attempt counter of callModelWithPolicies
  messages,  \* runSteward: the messages pushed after the prompt
  pending,   \* runSteward: the tool calls of the response not yet handled
  genlog,    \* runSteward: the calls of client.generate, as <<step, attempt>>
  min,       \* buildMatcher: the options and the line tested
  mout,      \* buildMatcher: the outcome of building and testing
  gitcall    \* git tools: the call that just ended, with its outcome

fsVars == <<fsys, fsOps, call>>

execVars == <<req, epc, child, pipes, got, timer, audit, appendFailed, result>>

truncVars == <<tin, tout>>

jsVars == <<jreq, jpc, ctx, ip, jlogs, timedOut, elapsed, jstatus, executed, host, jout, left>>

emitVars == <<gin, gout>>

patchVars == <<pfs, pcall>>

todoVars == <<store, todos, tcall>>

runVars == <<ropts, rpc, step, attempt, messages, pending, genlog>>

matchVars == <<min, mout>>

gitVars == <<gitcall>>

toolVars == <<fsVars, execVars, truncVars, jsVars, emitVars>>

restVars == <<patchVars, todoVars, runVars, matchVars, gitVars>>

vars ==
  <<fsys, fsOps, call, req, epc, child, pipes, got, timer, audit, appendFailed, result,
    tin, tout, jreq, jpc, ctx, ip, jlogs, timedOut, elapsed, jstatus, executed, host,
    jout, left, gin, gout, pfs, pcall, store, todos, tcall, ropts, rpc, step, attempt,
    messages, pending, genlog, min, mout, gitcall>>

----------------------------------------------------------------------------
(* Bounds of the filesystem model *)

MaxDepth == 3

MaxFsOps == 2

LinkFuel == 2

WalkFuel == 4

TopNames == {"ws", "out"}

Names == {"a", "..b"}

RawNames == Names \cup {".."}

FileData == {"hello", "secret"}

RECURSIVE SeqsUpTo(_, _)
SeqsUpTo(S, n) ==
  IF n = 0 THEN {<<>>}
  ELSE LET shorter == SeqsUpTo(S, n - 1)
       IN shorter \cup {Append(s, x) : s \in {t \in shorter : Len(t) = n - 1}, x \in S}

\* every absolute path of the model: /ws/..., /out/... and "/" itself
Paths ==
  {<<>>} \cup {<<t>> \o s : t \in TopNames, s \in SeqsUpTo(Names, MaxDepth - 1)}

\* process.cwd(): the workspace root
Cwd == <<"ws">>

ENOENT == <<"!ENOENT">>

NoEntry == [kind |-> "none", target |-> <<>>, data |-> ""]

DirEntry == [kind |-> "dir", target |-> <<>>, data |-> ""]

FileEntry(d) == [kind |-> "file", target |-> <<>>, data |-> d]

LinkEntry(t) == [kind |-> "link", target |-> t, data |-> ""]

Entry(f, p) == IF p \in DOMAIN f THEN f[p] ELSE NoEntry

Dirname(p) == IF p = <<>> THEN <<>> ELSE SubSeq(p, 1, Len(p) - 1)

Basename(p) == IF p = <<>> THEN "" ELSE p[Len(p)]

IsPrefix(a, b) == Len(a) <= Len(b) /\ SubSeq(b, 1, Len(a)) = a

----------------------------------------------------------------------------
(* node:path *)

\* path.resolve(process.cwd(), p): lexical; ".." pops, never below "/"
RECURSIVE ResolveParts(_, _)
ResolveParts(base, parts) ==
  IF parts = <<>> THEN base
  ELSE IF Head(parts) = ".." THEN ResolveParts(Dirname(base), Tail(parts))
  ELSE ResolveParts(Append(base, Head(parts)), Tail(parts))

normalizePath(raw) ==
  ResolveParts(IF raw.abs THEN <<>> ELSE Cwd, raw.parts)

RECURSIVE CommonLen(_, _)
CommonLen(a, b) ==
  IF a = <<>> \/ b = <<>> \/ Head(a) # Head(b) THEN 0
  ELSE 1 + CommonLen(Tail(a), Tail(b))

\* path.relative(from, to) as its components: one ".." per component of
\* `from` below the common prefix, then the rest of `to`
PathRelative(from, to) ==
  LET c == CommonLen(from, to)
  IN [i \in 1..(Len(from) - c) |-> ".."] \o SubSeq(to, c + 1, Len(to))

\* the first two characters of a component name are ".."
NameStartsWithDotDot(n) == n \in {"..", "..b"}

\* rel.startsWith(".."): rel is the components joined by "/"
RelStartsWithDotDot(rel) == rel # <<>> /\ NameStartsWithDotDot(rel[1])

\* a name whose first character is "."
NameStartsWithDot(n) == n \in {"..", "..b"}

----------------------------------------------------------------------------
(* node:fs on the modelled filesystem *)

\* fs.realpath: every component must exist; symbolic links are followed
RECURSIVE RealPath(_, _, _)
RealPath(f, p, fuel) ==
  IF p = <<>> THEN <<>>
  ELSE LET par == RealPath(f, Dirname(p), fuel)
       IN IF par = ENOENT THEN ENOENT
          ELSE LET q == Append(par, Basename(p))
                   e == Entry(f, q)
               IN CASE e.kind = "none" -> ENOENT
                    [] e.kind = "link" ->
                         IF fuel = 0 THEN ENOENT ELSE RealPath(f, e.target, fuel - 1)
                    [] OTHER -> q

realpath(f, p) == RealPath(f, p, LinkFuel)

\* fs.access / fs.stat follow links: the path exists iff it resolves
Exists(f, p) == realpath(f, p) # ENOENT

StatKind(f, p) ==
  LET r == realpath(f, p) IN IF r = ENOENT THEN "none" ELSE Entry(f, r).kind

\* the real location a path denotes, whether or not its leaf exists:
\* where open(O_CREAT) lands.  ENOENT when a directory on the way is missing.
RECURSIVE OpenTarget(_, _, _)
OpenTarget(f, p, fuel) ==
  IF p = <<>> THEN <<>>
  ELSE LET par == realpath(f, Dirname(p))
       IN IF par = ENOENT \/ Entry(f, par).kind # "dir" THEN ENOENT
          ELSE LET q == Append(par, Basename(p))
                   e == Entry(f, q)
               IN IF e.kind = "link"
                  THEN IF fuel = 0 THEN ENOENT ELSE OpenTarget(f, e.target, fuel - 1)
                  ELSE q

\* inside the workspace: the real location is the real root or below it
Inside(f, real) == IsPrefix(realpath(f, Cwd), real)

----------------------------------------------------------------------------
(* shared.ts: ensureInsideWorkspace *)

\* the catch branch: climb to the nearest ancestor that resolves, and
\* re-append the components that do not
RECURSIVE AncestorJoin(_, _, _)
AncestorJoin(f, current, suffix) ==
  LET parent == Dirname(current)
      suffix2 == <<Basename(current)>> \o suffix
  IN IF parent = current THEN ENOENT
     ELSE LET ancestorReal == realpath(f, parent)
          IN IF ancestorReal # ENOENT THEN ancestorReal \o suffix2
             ELSE AncestorJoin(f, parent, suffix2)

\* the location the guard validates
TargetReal(f, abs) ==
  LET direct == realpath(f, abs)
  IN IF direct # ENOENT THEN direct ELSE AncestorJoin(f, abs, <<>>)

ensureInsideWorkspace(f, abs, mustExist) ==
  LET rootReal == realpath(f, Cwd)
      targetReal == TargetReal(f, abs)
  IN IF targetReal = ENOENT THEN "Path outside workspace"
     ELSE IF RelStartsWithDotDot(PathRelative(rootReal, targetReal))
          THEN "Path outside workspace"
     ELSE IF mustExist /\ ~Exists(f, abs) THEN "Path does not exist"
     ELSE "ok"

----------------------------------------------------------------------------
(* create_file.ts *)

\* fs.mkdir(dir, {recursive: true}) from component i of dir on.  An existing
\* directory is passed through; a missing component is created in its real
\* parent; anything else in the way (a file, a dangling link) is an error.
RECURSIVE MkdirFrom(_, _, _, _)
MkdirFrom(f, dir, i, made) ==
  IF i > Len(dir) THEN [err |-> FALSE, fs |-> f, made |-> made]
  ELSE LET pre == SubSeq(dir, 1, i)
           kind == StatKind(f, pre)
           loc == OpenTarget(f, pre, 0)
       IN CASE kind = "dir" -> MkdirFrom(f, dir, i + 1, made)
            [] kind = "file" -> [err |-> TRUE, fs |-> f, made |-> made]
            [] loc = ENOENT \/ Entry(f, loc).kind # "none" ->
                 [err |-> TRUE, fs |-> f, made |-> made]
            [] OTHER -> MkdirFrom(f @@ (loc :> DirEntry), dir, i + 1, made \cup {loc})

MkdirRecursive(f, dir) == MkdirFrom(f, dir, 1, {})

\* fs.writeFile(abs, content): open(O_CREAT | O_TRUNC) follows the links
WriteFile(f, abs, content) ==
  LET loc == OpenTarget(f, abs, LinkFuel)
  IN IF loc = ENOENT \/ Entry(f, loc).kind = "dir"
     THEN [err |-> TRUE, fs |-> f, wrote |-> {}]
     ELSE [err |-> FALSE,
           fs |-> [q \in DOMAIN f \cup {loc} |-> IF q = loc THEN FileEntry(content) ELSE f[q]],
           wrote |-> {loc}]

\* the handler: its outcome, the filesystem it leaves and the real
\* locations it created or changed
createFileTool(f, rawPath, content, overwrite) ==
  LET abs == normalizePath(rawPath)
      guard == ensureInsideWorkspace(f, abs, FALSE)
      exists == Exists(f, abs)
      dirs == MkdirRecursive(f, Dirname(abs))
      file == WriteFile(dirs.fs, abs, content)
  IN IF guard # "ok" THEN [result |-> guard, fs |-> f, wrote |-> {}]
     ELSE IF exists /\ ~overwrite
          THEN [result |-> "File exists", fs |-> f, wrote |-> {}]
     ELSE IF dirs.err THEN [result |-> "mkdir failed", fs |-> dirs.fs, wrote |-> dirs.made]
     ELSE IF file.err THEN [result |-> "write failed", fs |-> dirs.fs, wrote |-> dirs.made]
     ELSE [result |-> "Created", fs |-> file.fs, wrote |-> dirs.made \cup file.wrote]

----------------------------------------------------------------------------
(* shared.ts: walk, isHidden;  execute.ts: grepSearchTool's traversal *)

\* the names of the model in the two orders readdir is taken to list them
NameOrder(rev) ==
  IF rev THEN <<"ws", "out", "a", "..b">> ELSE <<"..b", "a", "out", "ws">>

SkippedEntries == {"node_modules", ".git"}

\* fs.readdir(dir): the names directly below the real directory, in order
Readdir(f, dir, rev) ==
  LET real == realpath(f, dir)
      has(n) == Append(real, n) \in DOMAIN f
  IN SelectSeq(NameOrder(rev), has)

\* relPath(abs): path.relative(process.cwd(), abs)
relPath(abs) == PathRelative(Cwd, abs)

\* isHidden(rel): some component starts with "." and is not "."
isHidden(rel) == \E i \in 1..Len(rel) : NameStartsWithDot(rel[i])

\* walk(root, visit): depth-first over a stack of pending paths; stat follows
\* links.  Returns the files handed to visit, in order, and whether stat threw.
RECURSIVE Walk(_, _, _, _)
Walk(f, stack, visited, rev) ==
  IF stack = <<>> THEN [err |-> FALSE, files |-> visited]
  ELSE LET root == Head(stack)
           kind == StatKind(f, root)
           entries == SelectSeq(Readdir(f, root, rev), LAMBDA n : n \notin SkippedEntries)
           children == [i \in 1..Len(entries) |-> Append(root, entries[i])]
       IN CASE kind = "none" \/ Len(root) > WalkFuel ->
                 [err |-> TRUE, files |-> visited]
            [] kind = "dir" -> Walk(f, children \o Tail(stack), visited, rev)
            [] OTHER -> Walk(f, Tail(stack), Append(visited, root), rev)

\* the visit callback up to readFile: the hidden filter, then the read.
\* A file's content is one line; the matcher is equality with the pattern.
VisitReads(filePath, includeHidden) == includeHidden \/ ~isHidden(relPath(filePath))

grepSearchTool(f, rawPath, pattern, includeHidden, rev) ==
  LET root == normalizePath(rawPath)
      guard == ensureInsideWorkspace(f, root, TRUE)
      w == Walk(f, <<root>>, <<>>, rev)
      readPaths == {w.files[i] : i \in {j \in 1..Len(w.files) : VisitReads(w.files[j], includeHidden)}}
      matched == {p \in readPaths : Entry(f, realpath(f, p)).data = pattern}
  IN IF guard # "ok" THEN [result |-> guard, read |-> {}, reported |-> {}]
     ELSE [result |-> IF w.err THEN "stat failed"
                      ELSE IF matched = {} THEN "No matches" ELSE "matches",
           read |-> {realpath(f, p) : p \in readPaths},
           reported |-> IF w.err THEN {} ELSE {realpath(f, p) : p \in matched}]

----------------------------------------------------------------------------
NoCall == [op |-> "none"]

\* a path the environment can create: absent, directly in an existing directory
Creatable(f, p) ==
  /\ p # <<>>
  /\ p \notin DOMAIN f
  /\ Entry(f, Dirname(p)).kind = "dir"

EnvMkdir(p) ==
  /\ call = NoCall
  /\ fsOps < MaxFsOps
  /\ Creatable(fsys, p)
  /\ fsys' = fsys @@ (p :> DirEntry)
  /\ fsOps' = fsOps + 1
  /\ call' = NoCall

EnvWriteFile(p, d) ==
  /\ call = NoCall
  /\ fsOps < MaxFsOps
  /\ Creatable(fsys, p)
  /\ fsys' = fsys @@ (p :> FileEntry(d))
  /\ fsOps' = fsOps + 1
  /\ call' = NoCall

EnvSymlink(p, t) ==
  /\ call = NoCall
  /\ fsOps < MaxFsOps
  /\ Creatable(fsys, p)
  /\ fsys' = fsys @@ (p :> LinkEntry(t))
  /\ fsOps' = fsOps + 1
  /\ call' = NoCall

\* a direct call of the guard, as every tool makes it
GuardCall(abs, mustExist) ==
  /\ call = NoCall
  /\ call' = [op |-> "guard", abs |-> abs, mustExist |-> mustExist,
              result |-> ensureInsideWorkspace(fsys, abs, mustExist)]
  /\ UNCHANGED <<fsys, fsOps>>

RawPaths ==
  {[abs |-> TRUE, parts |-> p] : p \in Paths}
    \cup {[abs |-> FALSE, parts |-> p] : p \in SeqsUpTo(RawNames, MaxDepth - 1)}

CreateFile(raw, content, overwrite) ==
  LET r == createFileTool(fsys, raw, content, overwrite)
  IN /\ call = NoCall
     /\ fsOps < MaxFsOps
     /\ fsys' = r.fs
     /\ fsOps' = fsOps + 1
     /\ call' = [op |-> "create_file", abs |-> normalizePath(raw), result |-> r.result,
                 wrote |-> r.wrote, guard |-> ensureInsideWorkspace(fsys, normalizePath(raw), FALSE)]

GrepSearch(raw, pattern, includeHidden, rev) ==
  LET r == grepSearchTool(fsys, raw, pattern, includeHidden, rev)
  IN /\ call = NoCall
     /\ call' = [op |-> "grep_search", abs |-> normalizePath(raw), result |-> r.result,
                 read |-> r.read, reported |-> r.reported]
     /\ UNCHANGED <<fsys, fsOps>>

\* the handler's result goes back to the caller; the next call can start
FsReturn ==
  /\ call # NoCall
  /\ call' = NoCall
  /\ UNCHANGED <<fsys, fsOps>>

CreateFileStep ==
  /\ call = NoCall
  /\ fsOps < MaxFsOps
  /\ \E raw \in RawPaths, d \in FileData, o \in BOOLEAN : CreateFile(raw, d, o)
  /\ UNCHANGED <<execVars, truncVars, jsVars, emitVars, restVars>>

GrepSearchStep ==
  /\ call = NoCall
  /\ \E raw \in RawPaths, d \in FileData, h \in BOOLEAN, rev \in BOOLEAN :
       GrepSearch(raw, d, h, rev)
  /\ UNCHANGED <<execVars, truncVars, jsVars, emitVars, restVars>>

GuardCallStep ==
  /\ call = NoCall
  /\ \E abs \in Paths, m \in BOOLEAN : GuardCall(abs, m)
  /\ UNCHANGED <<execVars, truncVars, jsVars, emitVars, restVars>>

EnvMkdirStep ==
  /\ call = NoCall
  /\ fsOps < MaxFsOps
  /\ \E p \in Paths : EnvMkdir(p)
  /\ UNCHANGED <<execVars, truncVars, jsVars, emitVars, restVars>>

EnvWriteFileStep ==
  /\ call = NoCall
  /\ fsOps < MaxFsOps
  /\ \E p \in Paths, d \in FileData : EnvWriteFile(p, d)
  /\ UNCHANGED <<execVars, truncVars, jsVars, emitVars, restVars>>

EnvSymlinkStep ==
  /\ call = NoCall
  /\ fsOps < MaxFsOps
  /\ \E p \in Paths, t \in Paths : EnvSymlink(p, t)
  /\ UNCHANGED <<execVars, truncVars, jsVars, emitVars, restVars>>

FsReturnStep == FsReturn /\ UNCHANGED <<execVars, truncVars, jsVars, emitVars, restVars>>

FsNext ==
  \/ FsReturnStep
  \/ CreateFileStep
  \/ GrepSearchStep
  \/ GuardCallStep
  \/ EnvMkdirStep
  \/ EnvWriteFileStep
  \/ EnvSymlinkStep

----------------------------------------------------------------------------
(* execute.ts: executeTool *)

\* chunks a child writes to one stream, at most
MaxChunks == 2

\* chunks a pipe holds before a write blocks
PipeCap == 1

NotAString == "<not a string>"

CommandArgs == {"pwd", "sh", NotAString}

\* STEWARD_EXEC_ALLOW / STEWARD_EXEC_DENY, cut at the commas
AllowEnvValues == {<<"">>, <<" pwd ", "">>}

DenyEnvValues == {<<"">>, <<"pwd">>}

Trim(e) == IF e = " pwd " THEN "pwd" ELSE e

\* .split(",").map((s) => s.trim()).filter(Boolean)
ParseList(raw) == {Trim(raw[i]) : i \in 1..Len(raw)} \ {""}

NoNumber == [set |-> FALSE, ms |-> 0]

Number(n) == [set |-> TRUE, ms |-> n]

TimeoutArgs == {NoNumber, Number(0), Number(100)}

\* Number.parseInt(process.env.STEWARD_EXEC_TIMEOUT_MS ?? ""): NaN when unset
EnvTimeouts == {NoNumber, Number(100)}

\* timeoutMs ?? (Number.isFinite(envTimeoutMs) ? envTimeoutMs : undefined)
EffectiveTimeout(timeoutMs, envTimeoutMs) ==
  IF timeoutMs.set THEN timeoutMs ELSE envTimeoutMs

\* the truthiness test of `effectiveTimeout ? ... : undefined`
Truthy(t) == t.set /\ t.ms # 0

\* STEWARD_EXEC_MAX_OUTPUT_BYTES default
DefaultMaxOutput == 32000

MaxOutputArgs == {1, DefaultMaxOutput}

NullCode == -1

\* 128 + SIGTERM, the exit code of a child ended by the default kill signal
SigtermCode == 128 + 15

\* the filesystem at the start: "/", the workspace /ws and /out beside it
ExecFs == (<<>> :> DirEntry) @@ (<<"ws">> :> DirEntry) @@ (<<"out">> :> DirEntry)

NoCwd == [given |-> FALSE, abs |-> FALSE, parts |-> <<>>]

CwdArgs ==
  {NoCwd,
   [given |-> TRUE, abs |-> TRUE, parts |-> <<"out">>],
   [given |-> TRUE, abs |-> FALSE, parts |-> <<"a">>]}

NoReq == [active |-> FALSE]

NoChild == [state |-> "none", toOut |-> 0, toErr |-> 0, exits |-> FALSE, code |-> 0,
            killed |-> FALSE, eager |-> FALSE, buf |-> [out |-> 0, err |-> 0]]

NoPipes == [out |-> 0, err |-> 0]

NoResult == [kind |-> "none", text |-> "", exitCode |-> NullCode, error |-> FALSE,
             output |-> 0, truncated |-> FALSE]

Throw(msg) == [NoResult EXCEPT !.kind = "throw", !.text = msg]

\* Gate with the type of the command tested before the enable flag
GateTypeCheckedFirst(r) ==
  IF r.command = NotAString THEN "'command' must be a string"
  ELSE IF r.allowExecute # "1"
       THEN "execute tool disabled; set STEWARD_ALLOW_EXECUTE=1 to enable"
  ELSE IF r.envAllow # {} /\ r.command \notin r.envAllow
       THEN "command not allowed by STEWARD_EXEC_ALLOW"
  ELSE IF r.envDeny # {} /\ r.command \in r.envDeny
       THEN "command blocked by STEWARD_EXEC_DENY"
  ELSE "ok"

\* Gate with the deny-list consulted only when there is no allow-list
GateAllowOverridesDeny(r) ==
  IF r.allowExecute # "1" THEN "execute tool disabled; set STEWARD_ALLOW_EXECUTE=1 to enable"
  ELSE IF r.command = NotAString THEN "'command' must be a string"
  ELSE IF r.envAllow # {} /\ r.command \notin r.envAllow
       THEN "command not allowed by STEWARD_EXEC_ALLOW"
  ELSE IF r.envAllow = {} /\ r.envDeny # {} /\ r.command \in r.envDeny
       THEN "command blocked by STEWARD_EXEC_DENY"
  ELSE "ok"

\* lines 39-50: the enable flag, the command's type, the allow and deny lists
Gate(r) ==
  IF r.allowExecute # "1" THEN "execute tool disabled; set STEWARD_ALLOW_EXECUTE=1 to enable"
  ELSE IF r.command = NotAString THEN "'command' must be a string"
  ELSE IF r.envAllow # {} /\ r.command \notin r.envAllow
       THEN "command not allowed by STEWARD_EXEC_ALLOW"
  ELSE IF r.envDeny # {} /\ r.command \in r.envDeny
       THEN "command blocked by STEWARD_EXEC_DENY"
  ELSE "ok"

\* line 51: await ensureInsideWorkspace(cwd)
CwdGuard(r) == ensureInsideWorkspace(ExecFs, r.cwd, TRUE)

\* auditExecute: one record appended; a failed append is swallowed
AuditRecord(r, code, mode, truncated, error) ==
  [cmd |-> r.command, cwd |-> relPath(r.cwd), exitCode |-> code, mode |-> mode,
   truncated |-> truncated, error |-> error]

auditExecute(log, r, rec, appendOk) ==
  IF r.auditEnabled /\ appendOk THEN Append(log, rec) ELSE log

\* whether that append was tried and failed (the catch of auditExecute)
AppendFails(r, appendOk) == r.auditEnabled /\ ~appendOk

\* truncateOutput on an output counted in chunks: the marker is added when
\* the output is longer than the cap
OutputTruncated(n, maxOutputBytes) == n > maxOutputBytes

Spawned(program, eager) ==
  [state |-> "running", toOut |-> program.out, toErr |-> program.err,
   exits |-> program.exits, code |-> 0, killed |-> FALSE, eager |-> eager,
   buf |-> [out |-> 0, err |-> 0]]

Programs == [out : 0..MaxChunks, err : 0..MaxChunks, exits : BOOLEAN]

Requests ==
  {[active |-> TRUE, allowExecute |-> ae, command |-> c, envAllow |-> ParseList(al),
    envDeny |-> ParseList(de), auditEnabled |-> (au # "0"),
    cwd |-> (IF cw.given THEN normalizePath(cw) ELSE Cwd),
    background |-> bg, stream |-> st, maxOutputBytes |-> mo,
    effectiveTimeout |-> EffectiveTimeout(tm, et), spawns |-> 0] :
     ae \in {"", "1"}, c \in CommandArgs, al \in AllowEnvValues,
     de \in DenyEnvValues, au \in {"", "0"}, cw \in CwdArgs, bg \in BOOLEAN,
     st \in BOOLEAN, mo \in MaxOutputArgs, tm \in TimeoutArgs, et \in EnvTimeouts}

\* the call raises before anything is spawned: lines 39-51
ExecReject(r) ==
  /\ epc = "idle"
  /\ Gate(r) # "ok" \/ CwdGuard(r) # "ok"
  /\ req' = r
  /\ result' = Throw(IF Gate(r) # "ok" THEN Gate(r) ELSE CwdGuard(r))
  /\ epc' = "done"
  /\ UNCHANGED <<child, pipes, got, timer, audit, appendFailed>>

\* lines 52-62: background mode.  spawn throws when the command cannot be
\* started; otherwise the record is appended and the pid returned.
ExecBackground(r, spawnOk, appendOk) ==
  /\ epc = "idle"
  /\ Gate(r) = "ok" /\ CwdGuard(r) = "ok"
  /\ r.background
  /\ req' = [r EXCEPT !.spawns = 1]
  /\ epc' = "done"
  /\ IF spawnOk
     THEN /\ child' = Spawned([out |-> 0, err |-> 0, exits |-> FALSE], FALSE)
          /\ audit' = auditExecute(audit, r,
                        AuditRecord(r, NullCode, "background", FALSE, FALSE), appendOk)
          /\ appendFailed' = AppendFails(r, appendOk)
          /\ result' = [NoResult EXCEPT !.kind = "return", !.text = "started pid"]
     ELSE /\ child' = child
          /\ audit' = audit
          /\ appendFailed' = appendFailed
          /\ result' = Throw("spawn failed")
  /\ UNCHANGED <<pipes, got, timer>>

\* lines 63-75: streamed mode up to `await proc.exited`
ExecStreamStart(r, spawnOk, program, eager) ==
  /\ epc = "idle"
  /\ Gate(r) = "ok" /\ CwdGuard(r) = "ok"
  /\ ~r.background /\ r.stream
  /\ req' = [r EXCEPT !.spawns = 1]
  /\ IF spawnOk
     THEN /\ child' = Spawned(program, eager)
          /\ epc' = "stream_exited"
          /\ result' = result
     ELSE /\ child' = child
          /\ epc' = "done"
          /\ result' = Throw("spawn failed")
  /\ UNCHANGED <<pipes, got, timer, audit, appendFailed>>

\* line 75 resolves: the child has exited; the two collect() loops start
StreamExited ==
  /\ epc = "stream_exited"
  /\ child.state = "exited"
  /\ epc' = "stream_collect"
  /\ UNCHANGED <<req, child, pipes, got, timer, audit, appendFailed, result>>

\* what a reader can take from a stream now, and whether it is at its end
Available(s) == child.buf[s] + pipes[s]

AtEof(s) == child.state = "exited" /\ Available(s) = 0

\* reader.read() / stream.text() taking one chunk: the runtime's buffer
\* first, then the pipe
TakeChunk(s) ==
  /\ Available(s) > 0
  /\ got' = [got EXCEPT ![s] = @ + 1]
  /\ IF child.buf[s] > 0
     THEN /\ child' = [child EXCEPT !.buf[s] = @ - 1]
          /\ pipes' = pipes
     ELSE /\ pipes' = [pipes EXCEPT ![s] = @ - 1]
          /\ child' = child

\* line 76: Promise.all of the two collect() loops
StreamCollect(s) ==
  /\ epc = "stream_collect"
  /\ TakeChunk(s)
  /\ UNCHANGED <<req, epc, timer, audit, appendFailed, result>>

\* lines 77-80
StreamFinish(maxOutputBytes, appendOk) ==
  /\ epc = "stream_collect"
  /\ AtEof("out") /\ AtEof("err")
  /\ LET n == got.out + got.err
         truncated == OutputTruncated(n, maxOutputBytes)
     IN /\ audit' = auditExecute(audit, req,
                      AuditRecord(req, child.code, "stream", truncated, FALSE), appendOk)
        /\ result' = [NoResult EXCEPT !.kind = "return", !.text = "output",
                        !.output = n, !.truncated = truncated]
  /\ appendFailed' = AppendFails(req, appendOk)
  /\ epc' = "done"
  /\ UNCHANGED <<req, child, pipes, got, timer>>

\* lines 82-93: buffered mode up to `await proc.stdout.text()`; a spawn that
\* throws lands in the catch block, lines 100-105
ExecBufferedStart(r, spawnOk, program, eager, appendOk) ==
  /\ epc = "idle"
  /\ Gate(r) = "ok" /\ CwdGuard(r) = "ok"
  /\ ~r.background /\ ~r.stream
  /\ req' = [r EXCEPT !.spawns = 1]
  /\ IF spawnOk
     THEN /\ child' = Spawned(program, eager)
          /\ timer' = IF Truthy(r.effectiveTimeout) THEN "armed" ELSE "none"
          /\ epc' = "buf_stdout"
          /\ audit' = audit
          /\ appendFailed' = appendFailed
          /\ result' = result
     ELSE /\ child' = child
          /\ timer' = IF Truthy(r.effectiveTimeout) THEN "cleared" ELSE "none"
          /\ epc' = "done"
          /\ audit' = auditExecute(audit, r,
                        AuditRecord(r, NullCode, "error", FALSE, TRUE), appendOk)
          /\ appendFailed' = AppendFails(r, appendOk)
          /\ result' = [NoResult EXCEPT !.kind = "return", !.text = "error: spawn failed",
                          !.error = TRUE]
  /\ UNCHANGED <<pipes, got>>

\* line 93: proc.stdout.text() reads stdout to its end
BufReadStdout ==
  /\ epc = "buf_stdout"
  /\ TakeChunk("out")
  /\ UNCHANGED <<req, epc, timer, audit, appendFailed, result>>

BufStdoutDone ==
  /\ epc = "buf_stdout"
  /\ AtEof("out")
  /\ epc' = "buf_stderr"
  /\ UNCHANGED <<req, child, pipes, got, timer, audit, appendFailed, result>>

\* line 94: then proc.stderr.text()
BufReadStderr ==
  /\ epc = "buf_stderr"
  /\ TakeChunk("err")
  /\ UNCHANGED <<req, epc, timer, audit, appendFailed, result>>

\* BufFinish with auditExecute letting a failed append escape: the rejection
\* lands in the catch block of the handler
BufFinishAuditThrows(maxOutputBytes, appendOk) ==
  /\ epc = "buf_stderr"
  /\ AtEof("err")
  /\ LET n == got.out + got.err
         truncated == OutputTruncated(n, maxOutputBytes)
     IN IF AppendFails(req, appendOk)
        THEN /\ audit' = audit
             /\ result' = [NoResult EXCEPT !.kind = "return", !.text = "error: append failed",
                             !.error = TRUE]
        ELSE /\ audit' = auditExecute(audit, req,
                           AuditRecord(req, child.code, "default", truncated, FALSE), appendOk)
             /\ result' = [NoResult EXCEPT !.kind = "return", !.text = "exit",
                             !.exitCode = child.code, !.output = n, !.truncated = truncated]
  /\ appendFailed' = AppendFails(req, appendOk)
  /\ timer' = IF timer = "armed" THEN "cleared" ELSE timer
  /\ epc' = "done"
  /\ UNCHANGED <<req, child, pipes, got>>

\* lines 95-99 and the finally block
BufFinish(maxOutputBytes, appendOk) ==
  /\ epc = "buf_stderr"
  /\ AtEof("err")
  /\ LET n == got.out + got.err
         truncated == OutputTruncated(n, maxOutputBytes)
     IN /\ audit' = auditExecute(audit, req,
                      AuditRecord(req, child.code, "default", truncated, FALSE), appendOk)
        /\ result' = [NoResult EXCEPT !.kind = "return", !.text = "exit",
                        !.exitCode = child.code, !.output = n, !.truncated = truncated]
  /\ appendFailed' = AppendFails(req, appendOk)
  /\ timer' = IF timer = "armed" THEN "cleared" ELSE timer
  /\ epc' = "done"
  /\ UNCHANGED <<req, child, pipes, got>>

\* TimerFire with the abort signal not handed to spawn: the child lives on
TimerFireWithoutSignal ==
  /\ timer = "armed"
  /\ timer' = "fired"
  /\ UNCHANGED <<req, epc, child, pipes, got, audit, appendFailed, result>>

\* line 83: the timer fires, controller.abort() ends the child it was given to
TimerFire ==
  /\ timer = "armed"
  /\ timer' = "fired"
  /\ child' = IF child.state = "running"
              THEN [child EXCEPT !.state = "exited", !.code = SigtermCode,
                                 !.killed = TRUE, !.toOut = 0, !.toErr = 0]
              ELSE child
  /\ UNCHANGED <<req, epc, pipes, got, audit, appendFailed, result>>

\* the child writes a chunk to a pipe that has room
ChildWrite(s) ==
  /\ epc \notin {"idle", "done"}
  /\ child.state = "running"
  /\ pipes[s] < PipeCap
  /\ IF s = "out"
     THEN child.toOut > 0 /\ child' = [child EXCEPT !.toOut = @ - 1]
     ELSE child.toErr > 0 /\ child' = [child EXCEPT !.toErr = @ - 1]
  /\ pipes' = [pipes EXCEPT ![s] = @ + 1]
  /\ UNCHANGED <<req, epc, got, timer, audit, appendFailed, result>>

\* the child ends by itself once it has written everything
ChildExit(code) ==
  /\ epc \notin {"idle", "done"}
  /\ child.state = "running"
  /\ child.exits /\ child.toOut = 0 /\ child.toErr = 0
  /\ child' = [child EXCEPT !.state = "exited", !.code = code]
  /\ UNCHANGED <<req, epc, pipes, got, timer, audit, appendFailed, result>>

\* a runtime that reads the pipes ahead of the handler into its own buffer
RuntimeDrain(s) ==
  /\ epc \notin {"idle", "done"}
  /\ child.eager
  /\ pipes[s] > 0
  /\ pipes' = [pipes EXCEPT ![s] = @ - 1]
  /\ child' = [child EXCEPT !.buf[s] = @ + 1]
  /\ UNCHANGED <<req, epc, got, timer, audit, appendFailed, result>>

\* the result is back with the caller; a background child is left to itself
ExecReturn ==
  /\ epc = "done"
  /\ req' = NoReq
  /\ epc' = "idle"
  /\ child' = NoChild
  /\ pipes' = NoPipes
  /\ got' = NoPipes
  /\ timer' = "none"
  /\ audit' = <<>>
  /\ appendFailed' = FALSE
  /\ result' = NoResult

\* a call starts: its arguments and the environment are read
RejectStep ==
  /\ epc = "idle"
  /\ \E r \in Requests : ExecReject(r)
  /\ UNCHANGED <<fsVars, truncVars, jsVars, emitVars, restVars>>

BackgroundStep ==
  /\ epc = "idle"
  /\ \E r \in Requests, ok \in BOOLEAN, a \in BOOLEAN : ExecBackground(r, ok, a)
  /\ UNCHANGED <<fsVars, truncVars, jsVars, emitVars, restVars>>

StreamStartStep ==
  /\ epc = "idle"
  /\ \E r \in Requests, ok \in BOOLEAN, pr \in Programs, e \in BOOLEAN :
       ExecStreamStart(r, ok, pr, e)
  /\ UNCHANGED <<fsVars, truncVars, jsVars, emitVars, restVars>>

BufferedStartStep ==
  /\ epc = "idle"
  /\ \E r \in Requests, ok \in BOOLEAN, pr \in Programs, e \in BOOLEAN, a \in BOOLEAN :
       ExecBufferedStart(r, ok, pr, e, a)
  /\ UNCHANGED <<fsVars, truncVars, jsVars, emitVars, restVars>>

StreamExitedStep == StreamExited /\ UNCHANGED <<fsVars, truncVars, jsVars, emitVars, restVars>>

StreamCollectStep == (\E s \in {"out", "err"} : StreamCollect(s)) /\ UNCHANGED <<fsVars, truncVars, jsVars, emitVars, restVars>>

StreamFinishStep ==
  /\ epc = "stream_collect"
  /\ \E a \in BOOLEAN : StreamFinish(req.maxOutputBytes, a)
  /\ UNCHANGED <<fsVars, truncVars, jsVars, emitVars, restVars>>

BufReadStdoutStep == BufReadStdout /\ UNCHANGED <<fsVars, truncVars, jsVars, emitVars, restVars>>

BufStdoutDoneStep == BufStdoutDone /\ UNCHANGED <<fsVars, truncVars, jsVars, emitVars, restVars>>

BufReadStderrStep == BufReadStderr /\ UNCHANGED <<fsVars, truncVars, jsVars, emitVars, restVars>>

BufFinishStep ==
  /\ epc = "buf_stderr"
  /\ \E a \in BOOLEAN : BufFinish(req.maxOutputBytes, a)
  /\ UNCHANGED <<fsVars, truncVars, jsVars, emitVars, restVars>>

\* the continuations of the handler that the event loop runs
HandlerNext ==
  \/ StreamExitedStep
  \/ StreamCollectStep
  \/ StreamFinishStep
  \/ BufReadStdoutStep
  \/ BufStdoutDoneStep
  \/ BufReadStderrStep
  \/ BufFinishStep

TimerFireStep == TimerFire /\ UNCHANGED <<fsVars, truncVars, jsVars, emitVars, restVars>>

ChildWriteStep == (\E s \in {"out", "err"} : ChildWrite(s)) /\ UNCHANGED <<fsVars, truncVars, jsVars, emitVars, restVars>>

ChildExitStep == (\E c \in {0, 1} : ChildExit(c)) /\ UNCHANGED <<fsVars, truncVars, jsVars, emitVars, restVars>>

RuntimeDrainStep == (\E s \in {"out", "err"} : RuntimeDrain(s)) /\ UNCHANGED <<fsVars, truncVars, jsVars, emitVars, restVars>>

ExecReturnStep == ExecReturn /\ UNCHANGED <<fsVars, truncVars, jsVars, emitVars, restVars>>

ExecNext ==
  \/ RejectStep
  \/ BackgroundStep
  \/ StreamStartStep
  \/ BufferedStartStep
  \/ HandlerNext
  \/ TimerFireStep
  \/ ChildWriteStep
  \/ ChildExitStep
  \/ RuntimeDrainStep
  \/ ExecReturnStep

----------------------------------------------------------------------------
(* shared.ts: truncateOutput *)

\* characters of a text, at most
MaxStrLen == 3

\* the largest byte cap tried
MaxCap == 4

\* one character of each UTF-8 width: U+0061, U+00E9, U+20AC, U+1F600
Chars == {"a", "e-acute", "euro", "grin"}

\* U+FFFD, what a decoder puts in place of bytes that are no character
Replacement == "U+FFFD"

Utf8Width(c) ==
  CASE c = "a" -> 1
    [] c = "e-acute" -> 2
    [] c = "euro" -> 3
    [] c = "grin" -> 4
    [] c = Replacement -> 3

\* "\n[truncated]" in bytes
MarkerLen == 12

\* new TextEncoder().encode(body): a byte is the character it belongs to and
\* its place within that character
RECURSIVE Encode(_)
Encode(body) ==
  IF body = <<>> THEN <<>>
  ELSE [k \in 1..Utf8Width(Head(body)) |-> [ch |-> Head(body), k |-> k]] \o Encode(Tail(body))

\* new TextDecoder().decode(bytes), not fatal: whole characters come back, a
\* character cut short by the end of the bytes comes back as one U+FFFD
RECURSIVE Decode(_)
Decode(bytes) ==
  IF bytes = <<>> THEN <<>>
  ELSE LET w == Utf8Width(Head(bytes).ch)
       IN IF Len(bytes) >= w
          THEN <<Head(bytes).ch>> \o Decode(SubSeq(bytes, w + 1, Len(bytes)))
          ELSE <<Replacement>>

\* data.subarray(0, maxBytes), maxBytes >= 0
Subarray(data, maxBytes) ==
  SubSeq(data, 1, IF maxBytes < Len(data) THEN maxBytes ELSE Len(data))

truncateOutput(body, maxBytes) ==
  LET data == Encode(body)
  IN IF Len(data) <= maxBytes
     THEN [done |-> TRUE, text |-> body, marked |-> FALSE]
     ELSE [done |-> TRUE, text |-> Decode(Subarray(data, maxBytes)), marked |-> TRUE]

NoOutput == [done |-> FALSE, text |-> <<>>, marked |-> FALSE]

NoInput == [body |-> <<>>, maxBytes |-> 0]

TruncInputs == [body : SeqsUpTo(Chars, MaxStrLen), maxBytes : 0..MaxCap]

Truncate ==
  /\ ~tout.done
  /\ tout' = truncateOutput(tin.body, tin.maxBytes)
  /\ UNCHANGED <<tin, fsVars, execVars, jsVars, emitVars, restVars>>

TruncNext == Truncate

----------------------------------------------------------------------------
(* run_js.ts: runJsTool *)

\* statements of a script, at most
MaxOps == 2

\* ticks of the wall clock a call is followed for
MaxElapsed == 3

\* fetches started by scripts and not yet settled, at most
MaxPending == 1

\* what a statement of a script does: define a global, print what it sees of
\* the globals, spin forever, throw, defer a job (one that ends, one that
\* spins, one that fails, one that defers itself again), call fetch
Ops == {"set", "probe", "loop", "throw", "defer", "defer_loop", "defer_fail",
        "defer_chain", "fetch"}

Scripts == SeqsUpTo(Ops, MaxOps)

\* args.code: a string (the empty one included) or something else
CodeArgs == {[isString |-> FALSE, ops |-> <<>>]} \cup [isString : {TRUE}, ops : Scripts]

\* Math.max(1, args.timeoutMs), in ticks
JsTimeouts == {1, 2}

\* STEWARD_JS_MAX_OUTPUT_BYTES default
JsDefaultMaxOutput == 16000

\* Math.max(1, args.maxOutputBytes) or the default
JsMaxOutputArgs == {1, JsDefaultMaxOutput}

\* fetchCapable: the host has fetch and the context has newPromiseCapability
JsRequests ==
  [code : CodeArgs, timeoutMs : JsTimeouts, maxOutputBytes : JsMaxOutputArgs,
   allowNetwork : BOOLEAN, fetchCapable : BOOLEAN]

NoJsReq == [code |-> [isString |-> FALSE, ops |-> <<>>], timeoutMs |-> 1,
            maxOutputBytes |-> 1, allowNetwork |-> FALSE, fetchCapable |-> FALSE]

GlobalNames == {"process", "require", "fs", "fetch", "SANDBOX_ROOT", "console", "x"}

\* runtime.newContext(): none of the names is bound
FreshGlobals == [n \in GlobalNames |-> "undefined"]

NoContext == [runtime |-> "none", context |-> "none", globals |-> FreshGlobals,
              jobs |-> <<>>]

NoJsOut == [kind |-> "none", status |-> "", result |-> "", console |-> <<>>,
            error |-> FALSE, truncated |-> FALSE]

NoHost == [armed |-> 0, aborted |-> 0]

\* lines 40-53 with fetch installed whatever allowNetwork says
SetupGlobalsFetchAlways(r) ==
  [n \in GlobalNames |->
     CASE n = "SANDBOX_ROOT" -> "string"
       [] n = "console" -> "capture"
       [] n = "fetch" -> IF r.fetchCapable THEN "bridge" ELSE "undefined"
       [] OTHER -> "undefined"]

\* lines 40-53: the host hooks set to undefined, SANDBOX_ROOT, fetch when
\* allowNetwork is set and installFetch has what it needs, console
SetupGlobals(r) ==
  [n \in GlobalNames |->
     CASE n = "SANDBOX_ROOT" -> "string"
       [] n = "console" -> "capture"
       [] n = "fetch" -> IF r.allowNetwork /\ r.fetchCapable THEN "bridge" ELSE "undefined"
       [] n \in {"process", "require", "fs"} -> "undefined"
       [] OTHER -> FreshGlobals[n]]

RECURSIVE CountOp(_, _)
CountOp(ops, op) ==
  IF ops = <<>> THEN 0
  ELSE (IF Head(ops) = op THEN 1 ELSE 0) + CountOp(Tail(ops), op)

\* Date.now() - started > timeoutMs
DeadlinePassed == elapsed > jreq.timeoutMs

\* lines 99-110: the finally block, then the output put together and cut
JsOutput(st, text) ==
  [kind |-> "return", status |-> st, result |-> text, console |-> jlogs,
   error |-> (st # "ok"),
   truncated |-> OutputTruncated(2 + Len(jlogs), jreq.maxOutputBytes)]

\* lines 100-102: the handles, the context and the runtime are disposed, and
\* the job queue goes with the runtime
Disposed(c) == [c EXCEPT !.runtime = "disposed", !.context = "disposed", !.jobs = <<>>]

\* the try block is left with this status and result text: finally, return
JsFinish(st, text) ==
  /\ ctx' = Disposed(ctx)
  /\ jstatus' = st
  /\ jout' = JsOutput(st, text)
  /\ jpc' = "done"

\* lines 27-36: the arguments are read; a missing or empty code raises; the
\* module is awaited
JsCall(r) ==
  /\ jpc = "idle"
  /\ CountOp(r.code.ops, "fetch") + host.armed + host.aborted <= MaxPending
  /\ jreq' = r
  /\ IF ~r.code.isString \/ r.code.ops = <<>>
     THEN /\ jout' = [NoJsOut EXCEPT !.kind = "throw", !.result = "'code' must be a string"]
          /\ jpc' = "done"
     ELSE /\ jout' = jout
          /\ jpc' = "load"
  /\ UNCHANGED <<ctx, ip, jlogs, timedOut, elapsed, jstatus, executed, host, left>>

\* JsSetup on the runtime and context of the call before
JsSetupReusingContext(setupOk) ==
  /\ jpc = "load"
  /\ ctx' = [ctx EXCEPT !.runtime = "live", !.context = "live",
               !.globals = [n \in GlobalNames |->
                              IF n = "x" THEN ctx.globals[n] ELSE SetupGlobals(jreq)[n]]]
  /\ timedOut' = FALSE
  /\ elapsed' = 0
  /\ jstatus' = "ok"
  /\ executed' = FALSE
  /\ ip' = 1
  /\ IF setupOk
     THEN jpc' = "eval" /\ jout' = jout
     ELSE /\ jpc' = "done"
          /\ jout' = [NoJsOut EXCEPT !.kind = "throw", !.result = "setup failed"]
  /\ UNCHANGED <<jreq, jlogs, host, left>>

\* lines 37-66: a new runtime and a new context, the globals, the console,
\* the interrupt handler.  Nothing here is inside the try block: a step that
\* throws leaves the handler at once.
JsSetup(setupOk) ==
  /\ jpc = "load"
  /\ ctx' = [runtime |-> "live", context |-> "live", globals |-> SetupGlobals(jreq),
             jobs |-> <<>>]
  /\ jlogs' = <<>>
  /\ timedOut' = FALSE
  /\ elapsed' = 0
  /\ jstatus' = "ok"
  /\ executed' = FALSE
  /\ ip' = 1
  /\ IF setupOk
     THEN jpc' = "eval" /\ jout' = jout
     ELSE /\ jpc' = "done"
          /\ jout' = [NoJsOut EXCEPT !.kind = "throw", !.result = "setup failed"]
  /\ UNCHANGED <<jreq, host, left>>

Evaluating == jpc = "eval" /\ ip <= Len(jreq.code.ops)

RunningJob == jpc = "drain" /\ ctx.jobs # <<>>

\* line 68: evalCode runs the next statement of the script
EvalStep ==
  /\ Evaluating
  /\ LET op == jreq.code.ops[ip] IN
     CASE op = "set" ->
            /\ ctx' = [ctx EXCEPT !.globals["x"] = "script"]
            /\ ip' = ip + 1
            /\ UNCHANGED <<jpc, jlogs, jstatus, jout, host>>
       [] op = "probe" ->
            /\ jlogs' = Append(jlogs, ctx.globals)
            /\ ip' = ip + 1
            /\ UNCHANGED <<jpc, ctx, jstatus, jout, host>>
       [] op = "loop" ->
            UNCHANGED <<jpc, ctx, ip, jlogs, jstatus, jout, host>>
       [] op = "throw" ->
            /\ JsFinish("error", "thrown")
            /\ UNCHANGED <<ip, jlogs, host>>
       [] op = "fetch" ->
            IF ctx.globals["fetch"] = "bridge"
            THEN /\ host' = [host EXCEPT !.armed = @ + 1]
                 /\ ip' = ip + 1
                 /\ UNCHANGED <<jpc, ctx, jlogs, jstatus, jout>>
            ELSE /\ JsFinish("error", "not a function")
                 /\ UNCHANGED <<ip, jlogs, host>>
       [] OTHER ->
            /\ ctx' = [ctx EXCEPT !.jobs = Append(@, op)]
            /\ ip' = ip + 1
            /\ UNCHANGED <<jpc, jlogs, jstatus, jout, host>>
  /\ UNCHANGED <<jreq, timedOut, elapsed, executed, left>>

\* lines 73-77: the script ran to its end; the drain loop is entered
EvalEnd ==
  /\ jpc = "eval"
  /\ ip > Len(jreq.code.ops)
  /\ jpc' = "drain"
  /\ executed' = FALSE
  /\ UNCHANGED <<jreq, ctx, ip, jlogs, timedOut, elapsed, jstatus, jout, host, left>>

\* lines 96-98: a host exception inside the try block
EvalThrows ==
  /\ jpc \in {"eval", "drain"}
  /\ JsFinish(IF timedOut THEN "timeout" ELSE "error", "host error")
  /\ UNCHANGED <<jreq, ip, jlogs, timedOut, elapsed, executed, host, left>>

\* Poll with a handler that notes the deadline and lets the script go on
PollNeverInterrupts ==
  /\ Evaluating \/ RunningJob
  /\ timedOut' = (timedOut \/ DeadlinePassed)
  /\ UNCHANGED <<jreq, jpc, ctx, ip, jlogs, elapsed, jstatus, executed, host, jout, left>>

\* lines 57-63: the interpreter calls the interrupt handler while it runs
\* code.  Past the deadline the handler returns true and the interpreter
\* stops: evalCode returns an error (lines 69-72), executePendingJobs returns
\* an error (lines 81-85).
Poll ==
  /\ Evaluating \/ RunningJob
  /\ IF DeadlinePassed
     THEN /\ timedOut' = TRUE
          /\ JsFinish(IF jpc = "eval" THEN "timeout" ELSE "error", "interrupted")
     ELSE UNCHANGED <<timedOut, ctx, jstatus, jout, jpc>>
  /\ UNCHANGED <<jreq, ip, jlogs, elapsed, executed, host, left>>

\* line 80: executePendingJobs runs the job at the head of the queue
JobStep ==
  /\ RunningJob
  /\ LET job == Head(ctx.jobs) IN
     CASE job = "defer" ->
            /\ ctx' = [ctx EXCEPT !.jobs = Tail(@)]
            /\ executed' = TRUE
            /\ UNCHANGED <<jpc, jstatus, jout>>
       [] job = "defer_chain" ->
            /\ ctx' = [ctx EXCEPT !.jobs = Append(Tail(@), job)]
            /\ executed' = TRUE
            /\ UNCHANGED <<jpc, jstatus, jout>>
       [] job = "defer_fail" ->
            /\ JsFinish("error", "job failed")
            /\ UNCHANGED executed
       [] OTHER ->
            UNCHANGED <<jpc, ctx, jstatus, jout, executed>>
  /\ UNCHANGED <<jreq, ip, jlogs, timedOut, elapsed, host, left>>

\* lines 87-93: executePendingJobs is back with the number of jobs it ran
DrainReturn ==
  /\ jpc = "drain"
  /\ ctx.jobs = <<>>
  /\ IF ~executed
     THEN /\ JsFinish("ok", "value")
          /\ UNCHANGED <<timedOut, executed>>
     ELSE IF DeadlinePassed
          THEN /\ timedOut' = TRUE
               /\ JsFinish("timeout", "value")
               /\ UNCHANGED executed
          ELSE /\ executed' = FALSE
               /\ UNCHANGED <<timedOut, ctx, jstatus, jout, jpc>>
  /\ UNCHANGED <<jreq, ip, jlogs, elapsed, host, left>>

\* the wall clock moves on while the call runs
Tick ==
  /\ jpc \in {"eval", "drain"}
  /\ elapsed < MaxElapsed
  /\ elapsed' = elapsed + 1
  /\ UNCHANGED <<jreq, jpc, ctx, ip, jlogs, timedOut, jstatus, executed, host, jout, left>>

\* line 176: the abort timer of a fetch fires once the event loop is free
FetchTimerFire ==
  /\ jpc \in {"idle", "load"}
  /\ host.armed > 0
  /\ host' = [armed |-> host.armed - 1, aborted |-> host.aborted + 1]
  /\ UNCHANGED <<jreq, jpc, ctx, ip, jlogs, timedOut, elapsed, jstatus, executed, jout, left>>

\* lines 178-190: the host fetch settles once the event loop is free; its
\* continuation clears the timer and reaches for the context
FetchSettle ==
  /\ jpc \in {"idle", "load"}
  /\ host.armed + host.aborted > 0
  /\ host' = IF host.aborted > 0 THEN [host EXCEPT !.aborted = @ - 1]
             ELSE [host EXCEPT !.armed = @ - 1]
  /\ UNCHANGED <<jreq, jpc, ctx, ip, jlogs, timedOut, elapsed, jstatus, executed, jout, left>>

\* the result is back with the caller; the locals of the call are gone, the
\* memory of the context is whatever the call left of it
JsReturn ==
  /\ jpc = "done"
  /\ jpc' = "idle"
  /\ jreq' = NoJsReq
  /\ jout' = NoJsOut
  /\ ip' = 1
  /\ timedOut' = FALSE
  /\ elapsed' = 0
  /\ jstatus' = "ok"
  /\ executed' = FALSE
  /\ jlogs' = <<>>
  /\ left' = (left \/ ctx.globals["x"] = "script")
  /\ UNCHANGED <<ctx, host>>

JsCallStep ==
  /\ jpc = "idle"
  /\ \E r \in JsRequests : JsCall(r)
  /\ UNCHANGED <<fsVars, execVars, truncVars, emitVars, restVars>>

JsSetupStep == (\E ok \in BOOLEAN : JsSetup(ok)) /\ UNCHANGED <<fsVars, execVars, truncVars, emitVars, restVars>>

EvalStepStep == EvalStep /\ UNCHANGED <<fsVars, execVars, truncVars, emitVars, restVars>>

EvalEndStep == EvalEnd /\ UNCHANGED <<fsVars, execVars, truncVars, emitVars, restVars>>

EvalThrowsStep == EvalThrows /\ UNCHANGED <<fsVars, execVars, truncVars, emitVars, restVars>>

PollStep == Poll /\ UNCHANGED <<fsVars, execVars, truncVars, emitVars, restVars>>

JobStepStep == JobStep /\ UNCHANGED <<fsVars, execVars, truncVars, emitVars, restVars>>

DrainReturnStep == DrainReturn /\ UNCHANGED <<fsVars, execVars, truncVars, emitVars, restVars>>

TickStep == Tick /\ UNCHANGED <<fsVars, execVars, truncVars, emitVars, restVars>>

FetchTimerFireStep == FetchTimerFire /\ UNCHANGED <<fsVars, execVars, truncVars, emitVars, restVars>>

FetchSettleStep == FetchSettle /\ UNCHANGED <<fsVars, execVars, truncVars, emitVars, restVars>>

JsReturnStep == JsReturn /\ UNCHANGED <<fsVars, execVars, truncVars, emitVars, restVars>>

\* the synchronous part of the handler: the interpreter at work
InterpreterNext ==
  \/ JsSetupStep
  \/ EvalStepStep
  \/ EvalEndStep
  \/ JobStepStep
  \/ DrainReturnStep

JsNext ==
  \/ JsCallStep
  \/ InterpreterNext
  \/ EvalThrowsStep
  \/ PollStep
  \/ TickStep
  \/ FetchTimerFireStep
  \/ FetchSettleStep
  \/ JsReturnStep

----------------------------------------------------------------------------
(* execute.ts: grepSearchTool, the lines it emits *)

\* files the walk meets, at most
MaxFiles == 2

\* beforeContext and afterContext, at most
MaxContext == 1

\* maxResults, at most
MaxResultsArg == 3

\* lastLineEmitted: null
NullLine == -1

\* the lines of a file, each one matching the pattern or not; the last one
\* is the empty line after the final newline
FileLines ==
  {<<TRUE, FALSE>>,
   <<TRUE, TRUE, FALSE>>,
   <<FALSE, TRUE, FALSE, FALSE>>,
   <<FALSE, TRUE, FALSE, TRUE, FALSE, FALSE>>}

GrepOptions ==
  [maxResults : 0..MaxResultsArg, beforeContext : 0..MaxContext,
   afterContext : 0..MaxContext, withContextSeparators : BOOLEAN,
   withHeadings : BOOLEAN, withCounts : BOOLEAN, withContextLabels : BOOLEAN]

GrepInputs == [files : SeqsUpTo(FileLines, MaxFiles), o : GrepOptions]

NoGrepInput ==
  [files |-> <<>>,
   o |-> [maxResults |-> 0, beforeContext |-> 0, afterContext |-> 0,
          withContextSeparators |-> FALSE, withHeadings |-> FALSE, withCounts |-> FALSE,
          withContextLabels |-> FALSE]]

NoGrepOutput == [done |-> FALSE, output |-> <<>>, perFile |-> <<>>, visited |-> 0]

MathMax(a, b) == IF a >= b THEN a ELSE b

MathMin(a, b) == IF a <= b THEN a ELSE b

\* an entry `${rel}:${ctxIdx + 1}: ${text}`, without a label
LineEntry(file, ctxIdx) == [kind |-> "line", file |-> file, line |-> ctxIdx + 1, tag |-> ""]

\* line 215: the label of the line ctxIdx in the window of the match at idx
Tag(o, ctxIdx, idx) ==
  IF o.withContextLabels THEN (IF ctxIdx = idx THEN "M" ELSE "C") ELSE ""

\* line 216-217: the entry with its label as a prefix of the text
Labelled(entry, tag) == [entry EXCEPT !.tag = tag]

SepEntry(file) == [kind |-> "sep", file |-> file, line |-> 0, tag |-> ""]

HeadingEntry(file) == [kind |-> "heading", file |-> file, line |-> 0, tag |-> ""]

\* Window emitting every line of the window, emitted before or not
RECURSIVE WindowNoSkip(_, _, _, _, _, _, _)
WindowNoSkip(file, ctxIdx, end, last, acc, idx, o) ==
  IF ctxIdx >= end THEN acc
  ELSE WindowNoSkip(file, ctxIdx + 1, end, last,
                    Append(acc, Labelled(LineEntry(file, ctxIdx), Tag(o, ctxIdx, idx))), idx, o)

\* lines 211-220: the lines of a window, those at or before lastLineEmitted
\* left out
RECURSIVE Window(_, _, _, _, _, _, _)
Window(file, ctxIdx, end, last, acc, idx, o) ==
  IF ctxIdx >= end THEN acc
  ELSE IF last # NullLine /\ ctxIdx <= last
       THEN Window(file, ctxIdx + 1, end, last, acc, idx, o)
  ELSE Window(file, ctxIdx + 1, end, last,
              Append(acc, Labelled(LineEntry(file, ctxIdx), Tag(o, ctxIdx, idx))), idx, o)

\* ScanLines with the separator decided without the test for a first window
RECURSIVE ScanLinesSeparatorOnFirst(_, _, _, _, _)
ScanLinesSeparatorOnFirst(file, lines, idx, st, o) ==
  IF idx >= Len(lines) THEN st
  ELSE IF Len(st.matches) >= o.maxResults THEN st
  ELSE IF ~lines[idx + 1] THEN ScanLinesSeparatorOnFirst(file, lines, idx + 1, st, o)
  ELSE LET start == MathMax(0, idx - o.beforeContext)
           end == MathMin(Len(lines), idx + o.afterContext + 1)
           needsSeparator == o.withContextSeparators /\ start > st.last
           new == (IF needsSeparator THEN <<SepEntry(file)>> ELSE <<>>)
                    \o Window(file, start, end, st.last, <<>>, idx, o)
       IN ScanLinesSeparatorOnFirst(file, lines, idx + 1,
                    [matches |-> st.matches \o new, lines |-> st.lines \o new,
                     matchCount |-> st.matchCount + 1, last |-> end - 1,
                     lasts |-> Append(st.lasts, end - 1)], o)

\* lines 198-223: the lines of one file from idx on.  st holds matches, the
\* record of the file (lines, matchCount, lastLineEmitted) and the values
\* lastLineEmitted took
RECURSIVE ScanLines(_, _, _, _, _)
ScanLines(file, lines, idx, st, o) ==
  IF idx >= Len(lines) THEN st
  ELSE IF Len(st.matches) >= o.maxResults THEN st
  ELSE IF ~lines[idx + 1] THEN ScanLines(file, lines, idx + 1, st, o)
  ELSE LET start == MathMax(0, idx - o.beforeContext)
           end == MathMin(Len(lines), idx + o.afterContext + 1)
           needsSeparator ==
             o.withContextSeparators /\ st.last # NullLine /\ start > st.last
           new == (IF needsSeparator THEN <<SepEntry(file)>> ELSE <<>>)
                    \o Window(file, start, end, st.last, <<>>, idx, o)
       IN ScanLines(file, lines, idx + 1,
                    [matches |-> st.matches \o new, lines |-> st.lines \o new,
                     matchCount |-> st.matchCount + 1, last |-> end - 1,
                     lasts |-> Append(st.lasts, end - 1)], o)

\* lines 179-224: the walk over the files; a file is not visited once the
\* limit is reached
RECURSIVE ScanFiles(_, _, _, _)
ScanFiles(files, k, acc, o) ==
  IF k > Len(files) THEN acc
  ELSE IF Len(acc.matches) >= o.maxResults THEN acc
  ELSE LET st == ScanLines(k, files[k], 0,
                           [matches |-> acc.matches, lines |-> <<>>, matchCount |-> 0,
                            last |-> NullLine, lasts |-> <<>>], o)
       IN ScanFiles(files, k + 1,
                    [matches |-> st.matches,
                     perFile |-> Append(acc.perFile,
                                   [file |-> k, lines |-> st.lines,
                                    matchCount |-> st.matchCount, lasts |-> st.lasts]),
                     visited |-> acc.visited + 1], o)

\* lines 226-236: the headings and the lines of every file that has lines
RECURSIVE Parts(_, _, _)
Parts(perFile, k, o) ==
  IF k > Len(perFile) THEN <<>>
  ELSE IF perFile[k].lines = <<>> THEN Parts(perFile, k + 1, o)
  ELSE (IF o.withHeadings THEN <<HeadingEntry(perFile[k].file)>> ELSE <<>>)
         \o perFile[k].lines \o Parts(perFile, k + 1, o)

\* lines 175-238: what grep_search returns for these files, entry by entry
grepEmit(files, o) ==
  LET acc == ScanFiles(files, 1, [matches |-> <<>>, perFile |-> <<>>, visited |-> 0], o)
  IN [done |-> TRUE,
      output |-> IF acc.matches = <<>> THEN <<>>
                 ELSE IF o.withHeadings \/ o.withCounts THEN Parts(acc.perFile, 1, o)
                 ELSE acc.matches,
      perFile |-> acc.perFile,
      visited |-> acc.visited]

Emit ==
  /\ ~gout.done
  /\ gout' = grepEmit(gin.files, gin.o)
  /\ UNCHANGED <<gin, fsVars, execVars, truncVars, jsVars, restVars>>

EmitNext == Emit

----------------------------------------------------------------------------
(* execute.ts: applyPatchTool *)

MaxBatch == 2

\* a file is the sequence of its lines; a.txt and b.txt hold "a\nb\n"
PatchLines == <<"a", "b">>

\* the workspace with two files and a directory, next to an outside file
PatchFs ==
  (<<>> :> DirEntry) @@ (<<"ws">> :> DirEntry) @@ (<<"out">> :> DirEntry)
  @@ (<<"ws", "a.txt">> :> FileEntry(PatchLines))
  @@ (<<"ws", "b.txt">> :> FileEntry(PatchLines))
  @@ (<<"ws", "d">> :> DirEntry)
  @@ (<<"out", "o.txt">> :> FileEntry(PatchLines))

PatchPathArgs ==
  {[abs |-> FALSE, parts |-> <<"a.txt">>],
   [abs |-> FALSE, parts |-> <<"b.txt">>],
   [abs |-> FALSE, parts |-> <<"d">>],
   [abs |-> FALSE, parts |-> <<"missing.txt">>],
   [abs |-> TRUE, parts |-> <<"out", "o.txt">>]}

\* a unified diff of one hunk that replaces the line old by the line new.
\* Every line value occurs at one position only, so the offset at which the
\* hunk is looked for plays no part.
Hunks ==
  {[old |-> "a", new |-> "c"], [old |-> "c", new |-> "a"], [old |-> "b", new |-> "d"]}

\* an element of args.patches: a {path, patch} object, or anything else
Malformed == [wellFormed |-> FALSE, path |-> [abs |-> FALSE, parts |-> <<>>],
              patch |-> [old |-> "", new |-> ""]]

PatchEntries ==
  {[wellFormed |-> TRUE, path |-> p, patch |-> h] : p \in PatchPathArgs, h \in Hunks}
  \cup {Malformed}

PatchArgs ==
  [hasBatch : {TRUE}, patches : SeqsUpTo(PatchEntries, MaxBatch) \ {<<>>}, dryRun : BOOLEAN]
  \cup [hasBatch : {FALSE}, patches : {<<e>> : e \in PatchEntries}, dryRun : BOOLEAN]

NoPatchCall ==
  [done |-> FALSE, args |-> [hasBatch |-> FALSE, patches |-> <<>>, dryRun |-> FALSE],
   out |-> "", count |-> 0, before |-> PatchFs, wrote |-> <<>>]

\* diff's applyPatch(source, patch): the patched text, or false when the
\* hunk finds no place
NotApplied == <<"false">>

applyPatch(source, patch) ==
  IF \E i \in 1..Len(source) : source[i] = patch.old
  THEN [i \in 1..Len(source) |-> IF source[i] = patch.old THEN patch.new ELSE source[i]]
  ELSE NotApplied

\* fs.readFile(abs, "utf8"): ENOENT stands for any failure
ReadFile(f, abs) ==
  LET r == realpath(f, abs)
  IN IF r = ENOENT \/ Entry(f, r).kind # "file" THEN ENOENT ELSE Entry(f, r).data

\* lines 276-279: the entries that are {path, patch} objects
RECURSIVE FilterPatches(_)
FilterPatches(entries) ==
  IF entries = <<>> THEN <<>>
  ELSE (IF Head(entries).wellFormed THEN <<Head(entries)>> ELSE <<>>)
       \o FilterPatches(Tail(entries))

\* lines 282-291: guard, read and patch every entry; nothing is written here
RECURSIVE CollectResults(_, _, _)
CollectResults(f, patches, results) ==
  IF patches = <<>> THEN [out |-> "ok", results |-> results]
  ELSE LET entry == Head(patches)
           abs == normalizePath(entry.path)
           current == ReadFile(f, abs)
           next == applyPatch(current, entry.patch)
       IN IF ensureInsideWorkspace(f, abs, TRUE) # "ok" THEN [out |-> "throw", results |-> results]
          ELSE IF current = ENOENT THEN [out |-> "throw", results |-> results]
          ELSE IF next = NotApplied THEN [out |-> "error", results |-> results]
          ELSE CollectResults(f, Tail(patches),
                              Append(results, [abs |-> abs, content |-> current, next |-> next]))

\* lines 295-297: the writes, one after the other
RECURSIVE WriteResults(_, _, _)
WriteResults(f, results, wrote) ==
  IF results = <<>> THEN [fs |-> f, wrote |-> wrote, err |-> FALSE]
  ELSE LET w == WriteFile(f, Head(results).abs, Head(results).next)
       IN IF w.err THEN [fs |-> f, wrote |-> wrote, err |-> TRUE]
          ELSE WriteResults(w.fs, Tail(results), Append(wrote, Head(results).abs))

\* a variant that writes each file as soon as its patch has applied
RECURSIVE WriteAsItGoes(_, _, _, _)
WriteAsItGoes(f, patches, dryRun, wrote) ==
  IF patches = <<>>
  THEN [out |-> IF dryRun THEN "Dry-run OK" ELSE "Patched", count |-> Len(wrote),
        fs |-> f, wrote |-> IF dryRun THEN <<>> ELSE wrote]
  ELSE LET c == CollectResults(f, <<Head(patches)>>, <<>>)
           w == WriteResults(f, IF dryRun THEN <<>> ELSE c.results, <<>>)
       IN IF c.out # "ok"
          THEN [out |-> c.out, count |-> 0, fs |-> f, wrote |-> IF dryRun THEN <<>> ELSE wrote]
          ELSE WriteAsItGoes(w.fs, Tail(patches), dryRun, Append(wrote, c.results[1].abs))

PatchBatchWritingAsItGoes(f, patches, dryRun) ==
  IF patches = <<>> THEN [out |-> "throw", count |-> 0, fs |-> f, wrote |-> <<>>]
  ELSE WriteAsItGoes(f, patches, dryRun, <<>>)

\* lines 275-299: the batch branch
PatchBatch(f, patches, dryRun) ==
  LET c == CollectResults(f, patches, <<>>)
      w == WriteResults(f, c.results, <<>>)
  IN IF patches = <<>> THEN [out |-> "throw", count |-> 0, fs |-> f, wrote |-> <<>>]
     ELSE IF c.out # "ok" THEN [out |-> c.out, count |-> 0, fs |-> f, wrote |-> <<>>]
     ELSE IF dryRun
          THEN [out |-> "Dry-run OK", count |-> Len(c.results), fs |-> f, wrote |-> <<>>]
     ELSE IF w.err THEN [out |-> "throw", count |-> 0, fs |-> w.fs, wrote |-> w.wrote]
     ELSE [out |-> "Patched", count |-> Len(c.results), fs |-> w.fs, wrote |-> w.wrote]

\* lines 301-317: the single-file branch
PatchSingle(f, entry, dryRun) ==
  IF ~entry.wellFormed THEN [out |-> "throw", count |-> 0, fs |-> f, wrote |-> <<>>]
  ELSE PatchBatch(f, <<entry>>, dryRun)

applyPatchTool(f, args) ==
  IF args.hasBatch
  THEN PatchBatch(f, FilterPatches(args.patches), args.dryRun)
  ELSE PatchSingle(f, args.patches[1], args.dryRun)

ApplyPatch ==
  /\ ~pcall.done
  /\ \E args \in PatchArgs :
       LET r == applyPatchTool(pfs, args)
       IN /\ pfs' = r.fs
          /\ pcall' = [done |-> TRUE, args |-> args, out |-> r.out, count |-> r.count,
                       before |-> pfs, wrote |-> r.wrote]
  /\ UNCHANGED <<toolVars, todoVars, runVars, matchVars, gitVars>>

PatchReturn ==
  /\ pcall.done
  /\ pcall' = NoPatchCall
  /\ UNCHANGED <<pfs, toolVars, todoVars, runVars, matchVars, gitVars>>

PatchNext == ApplyPatch \/ PatchReturn

----------------------------------------------------------------------------
(* manage_todo.ts: manageTodoTool *)

MaxTodos == 2

MaxTitleLen == 2

\* titles are strings over a blank and a letter
TitleArgs == SeqsUpTo({" ", "t"}, MaxTitleLen) \cup {<<NotAString>>}

\* String.prototype.trim
RECURSIVE TrimStart(_)
TrimStart(s) == IF s # <<>> /\ Head(s) = " " THEN TrimStart(Tail(s)) ELSE s

RECURSIVE TrimEnd(_)
TrimEnd(s) ==
  IF s # <<>> /\ s[Len(s)] = " " THEN TrimEnd(SubSeq(s, 1, Len(s) - 1)) ELSE s

StringTrim(s) == TrimEnd(TrimStart(s))

NoId == 0

IdArgs == 1..(MaxTodos + 1) \cup {NoId}

TodoStatuses == {"not-started", "in-progress", "blocked", "done"}

StatusArgs == TodoStatuses \cup {"bogus", ""}

isTodoStatus(val) == val \in TodoStatuses

NoTodoArgs == [action |-> "", title |-> <<>>, id |-> NoId, status |-> ""]

TodoArgs ==
  {[NoTodoArgs EXCEPT !.action = "list"], [NoTodoArgs EXCEPT !.action = "purge"]}
  \cup {[NoTodoArgs EXCEPT !.action = "add", !.title = t] : t \in TitleArgs}
  \cup {[NoTodoArgs EXCEPT !.action = "done", !.id = i] : i \in IdArgs}
  \cup {[NoTodoArgs EXCEPT !.action = "set_status", !.id = i, !.status = s] :
          i \in IdArgs, s \in StatusArgs}

\* .steward-todo.json is absent until the first write
NoStore == [exists |-> FALSE, nextId |-> 0, items |-> <<>>]

NoTodoCall == [done |-> FALSE, args |-> NoTodoArgs, out |-> "", output |-> <<>>,
               before |-> NoStore]

\* shared.ts readTodo: the parsed file, or an empty list when it cannot be read
readTodo(st) ==
  IF st.exists THEN [nextId |-> st.nextId, items |-> st.items]
  ELSE [nextId |-> 1, items |-> <<>>]

\* shared.ts writeTodo
writeTodo(todo) == [exists |-> TRUE, nextId |-> todo.nextId, items |-> todo.items]

\* `${item.id}. [${item.status}] ${item.title}`
RenderItem(item) == <<item.id, ". [", item.status, "] ", item.title>>

\* todo.items.find((t) => t.id === id): the index of the first such item, or 0
Find(items, id) ==
  IF \E i \in 1..Len(items) : items[i].id = id
  THEN CHOOSE i \in 1..Len(items) :
         items[i].id = id /\ \A j \in 1..(i - 1) : items[j].id # id
  ELSE 0

TodoThrow(st, msg) == [out |-> "throw", output |-> <<msg>>, store |-> st]

TodoList(st, todo) ==
  [out |-> "ok",
   output |-> IF todo.items = <<>> THEN <<"No todos">>
              ELSE [i \in 1..Len(todo.items) |-> RenderItem(todo.items[i])],
   store |-> st]

TodoAdd(st, todo, args) ==
  LET title == IF args.title = <<NotAString>> THEN <<>> ELSE StringTrim(args.title)
      next == [id |-> todo.nextId, title |-> title, status |-> "not-started"]
  IN IF title = <<>> THEN TodoThrow(st, "'title' required for add")
     ELSE [out |-> "ok", output |-> <<"Added", next.id, next.title>>,
           store |-> writeTodo([nextId |-> todo.nextId + 1,
                                items |-> Append(todo.items, next)])]

TodoDone(st, todo, args) ==
  LET k == Find(todo.items, args.id)
  IN IF args.id = NoId THEN TodoThrow(st, "'id' required for done")
     ELSE IF k = 0 THEN TodoThrow(st, "Todo not found")
     ELSE [out |-> "ok", output |-> <<"Completed", args.id, todo.items[k].title>>,
           store |-> writeTodo([todo EXCEPT !.items[k].status = "done"])]

\* set_status without the test of the status
TodoSetStatusUnchecked(st, todo, args) ==
  LET k == Find(todo.items, args.id)
  IN IF args.id = NoId \/ args.status = ""
     THEN TodoThrow(st, "'id' and 'status' required for set_status")
     ELSE IF k = 0 THEN TodoThrow(st, "Todo not found")
     ELSE [out |-> "ok", output |-> <<"Set", args.id, args.status>>,
           store |-> writeTodo([todo EXCEPT !.items[k].status = args.status])]

TodoSetStatus(st, todo, args) ==
  LET k == Find(todo.items, args.id)
  IN IF args.id = NoId \/ args.status = ""
     THEN TodoThrow(st, "'id' and 'status' required for set_status")
     ELSE IF ~isTodoStatus(args.status) THEN TodoThrow(st, "Invalid status")
     ELSE IF k = 0 THEN TodoThrow(st, "Todo not found")
     ELSE [out |-> "ok", output |-> <<"Set", args.id, args.status>>,
           store |-> writeTodo([todo EXCEPT !.items[k].status = args.status])]

manageTodoTool(st, args) ==
  LET todo == readTodo(st)
  IN CASE args.action = "list" -> TodoList(st, todo)
       [] args.action = "add" -> TodoAdd(st, todo, args)
       [] args.action = "done" -> TodoDone(st, todo, args)
       [] args.action = "set_status" -> TodoSetStatus(st, todo, args)
       [] OTHER -> TodoThrow(st, "Unsupported todo action")

\* the abstract list: what the calls made so far describe
AbstractAdd(list, title) ==
  IF StringTrim(title) = <<>> \/ title = <<NotAString>> THEN list
  ELSE Append(list, [id |-> Len(list) + 1, title |-> StringTrim(title),
                     status |-> "not-started"])

AbstractSet(list, id, status) ==
  IF id \in 1..Len(list) /\ status \in TodoStatuses
  THEN [list EXCEPT ![id].status = status] ELSE list

AbstractStep(list, args) ==
  CASE args.action = "add" -> AbstractAdd(list, args.title)
    [] args.action = "done" -> AbstractSet(list, args.id, "done")
    [] args.action = "set_status" -> AbstractSet(list, args.id, args.status)
    [] OTHER -> list

ManageTodo ==
  /\ ~tcall.done
  /\ \E args \in TodoArgs :
       LET r == manageTodoTool(store, args)
       IN /\ args.action = "add" => Len(readTodo(store).items) < MaxTodos
          /\ store' = r.store
          /\ todos' = AbstractStep(todos, args)
          /\ tcall' = [done |-> TRUE, args |-> args, out |-> r.out, output |-> r.output,
                       before |-> store]
  /\ UNCHANGED <<toolVars, patchVars, runVars, matchVars, gitVars>>

TodoReturn ==
  /\ tcall.done
  /\ tcall' = NoTodoCall
  /\ UNCHANGED <<store, todos, toolVars, patchVars, runVars, matchVars, gitVars>>

TodoNext == ManageTodo \/ TodoReturn

----------------------------------------------------------------------------
(* runner.ts: runSteward, callModelWithPolicies *)

MaxStepsArg == 2

MaxRetriesArg == 1

MaxCalls == 2

DefaultMaxSteps == 16

DefaultRetries == 0

Undefined == [set |-> FALSE, n |-> 0]

Given(n) == [set |-> TRUE, n |-> n]

RunOptions ==
  [maxSteps : {Undefined} \cup {Given(n) : n \in 0..MaxStepsArg},
   retries : {Undefined} \cup {Given(n) : n \in 0..MaxRetriesArg}]

NoRunOptions == [maxSteps |-> Undefined, retries |-> Undefined]

\* options.maxSteps ?? 16
Limit(o) == IF o.maxSteps.set THEN o.maxSteps.n ELSE DefaultMaxSteps

\* options.retries ?? 0
RetryLimit(o) == IF o.retries.set THEN o.retries.n ELSE DefaultRetries

\* a variant with one attempt more
AttemptsOneMore(retryLimit) == MathMax(0, retryLimit) + 2

\* Math.max(0, args.retryLimit) + 1
Attempts(retryLimit) == MathMax(0, retryLimit) + 1

\* the tool calls of a response: the model chooses the ids and the names
CallIds == {"call_1", "call_2"}

ToolNames == {"read_file", "no_such_tool"}

toolHandlers == {"read_file"}

ToolCalls == [id : CallIds, name : ToolNames]

Responses == [content : {"", "text"}, toolCalls : SeqsUpTo(ToolCalls, MaxCalls)]

AssistantMessage(response) ==
  [role |-> "assistant", content |-> response.content, tool_calls |-> response.toolCalls,
   tool_call_id |-> ""]

ToolMessage(content, c) ==
  [role |-> "tool", content |-> content, tool_calls |-> <<>>, tool_call_id |-> c.id]

Prompt ==
  <<[role |-> "system", content |-> "system", tool_calls |-> <<>>, tool_call_id |-> ""],
    [role |-> "user", content |-> "prompt", tool_calls |-> <<>>, tool_call_id |-> ""]>>

NoGenLog == [requests |-> 0, attempts |-> 0, ended |-> ""]

\* the head of `for (let step = 0; step < limit; step++)` with step = s: the
\* next call of callModelWithPolicies, or the warning after the loop
ForLoop(o, s) ==
  /\ step' = s
  /\ IF s < Limit(o)
     THEN /\ rpc' = "model"
          /\ attempt' = 1
          /\ genlog' = [requests |-> genlog.requests + 1, attempts |-> 0, ended |-> ""]
     ELSE /\ rpc' = "returned"
          /\ attempt' = attempt
          /\ genlog' = [genlog EXCEPT !.ended = "max steps"]

\* runSteward is called: the two opening messages, then the loop
RunStart ==
  /\ rpc = "idle"
  /\ \E o \in RunOptions :
       /\ ropts' = o
       /\ ForLoop(o, 0)
  /\ messages' = Prompt
  /\ pending' = <<>>

\* client.generate throws, or withTimeout rejects: the next attempt, or the
\* error after the last one, which ends the run
GenerateFails ==
  /\ rpc = "model"
  /\ IF attempt = Attempts(RetryLimit(ropts))
     THEN /\ rpc' = "returned"
          /\ attempt' = attempt
          /\ genlog' = [genlog EXCEPT !.attempts = @ + 1, !.ended = "model error"]
     ELSE /\ rpc' = "model"
          /\ attempt' = attempt + 1
          /\ genlog' = [genlog EXCEPT !.attempts = @ + 1]
  /\ UNCHANGED <<ropts, step, messages, pending>>

\* client.generate returns a response
GenerateReturns ==
  /\ rpc = "model"
  /\ \E response \in Responses :
       IF response.toolCalls # <<>>
       THEN /\ messages' = <<AssistantMessage(response)>>
            /\ pending' = response.toolCalls
            /\ rpc' = "tools"
            /\ genlog' = [genlog EXCEPT !.attempts = @ + 1]
            /\ UNCHANGED <<step, attempt>>
       ELSE IF response.content # ""
       THEN /\ rpc' = "returned"
            /\ genlog' = [genlog EXCEPT !.attempts = @ + 1, !.ended = "final"]
            /\ UNCHANGED <<step, attempt, messages, pending>>
       ELSE /\ step' = step + 1
            /\ IF step + 1 < Limit(ropts)
               THEN /\ rpc' = "model"
                    /\ attempt' = 1
                    /\ genlog' = [requests |-> genlog.requests + 1, attempts |-> 0,
                                  ended |-> ""]
               ELSE /\ rpc' = "returned"
                    /\ attempt' = attempt
                    /\ genlog' = [genlog EXCEPT !.attempts = @ + 1, !.ended = "max steps"]
            /\ UNCHANGED <<messages, pending>>
  /\ UNCHANGED ropts

\* the message pushed for one tool call, with errors of the handler dropped
ToolAnswerDroppingErrors(c, outcome) ==
  IF c.name \notin toolHandlers THEN <<ToolMessage("Unknown tool", c)>>
  ELSE IF outcome = "result" THEN <<ToolMessage("output", c)>>
  ELSE <<>>

\* lines 79-110: the message pushed for one tool call
ToolAnswer(c, outcome) ==
  IF c.name \notin toolHandlers THEN <<ToolMessage("Unknown tool", c)>>
  ELSE IF outcome = "result" THEN <<ToolMessage("output", c)>>
  ELSE <<ToolMessage("error", c)>>

\* one turn of `for (const call of response.toolCalls)`; after the last
\* call the outer loop goes on
HandleToolCall ==
  /\ rpc = "tools"
  /\ \E outcome \in {"result", "throw"} :
       messages' = messages \o ToolAnswer(Head(pending), outcome)
  /\ pending' = Tail(pending)
  /\ IF Tail(pending) = <<>>
     THEN ForLoop(ropts, step + 1)
     ELSE UNCHANGED <<rpc, step, attempt, genlog>>
  /\ UNCHANGED ropts

RunReturn ==
  /\ rpc = "returned"
  /\ rpc' = "idle"
  /\ ropts' = NoRunOptions
  /\ step' = 0
  /\ attempt' = 0
  /\ messages' = <<>>
  /\ pending' = <<>>
  /\ genlog' = NoGenLog

RunStartStep == RunStart /\ UNCHANGED <<toolVars, patchVars, todoVars, matchVars, gitVars>>

GenerateFailsStep ==
  GenerateFails /\ UNCHANGED <<toolVars, patchVars, todoVars, matchVars, gitVars>>

GenerateReturnsStep ==
  GenerateReturns /\ UNCHANGED <<toolVars, patchVars, todoVars, matchVars, gitVars>>

HandleToolCallStep ==
  HandleToolCall /\ UNCHANGED <<toolVars, patchVars, todoVars, matchVars, gitVars>>

RunReturnStep == RunReturn /\ UNCHANGED <<toolVars, patchVars, todoVars, matchVars, gitVars>>

RunNext ==
  \/ RunStartStep
  \/ GenerateFailsStep
  \/ GenerateReturnsStep
  \/ HandleToolCallStep
  \/ RunReturnStep

----------------------------------------------------------------------------
(* shared.ts: buildMatcher, escapeRegex *)

MaxPatLen == 3

MaxLineLen == 2

\* patterns and lines are strings over a letter and a few characters that
\* mean something in a regular expression
PatChars == {"a", ".", "(", "\\", "]"}

LineChars == {"a", ".", "]"}

WordChars == {"a", "b"}

MatchInputs ==
  [pattern : SeqsUpTo(PatChars, MaxPatLen) \ {<<>>}, isRegex : BOOLEAN,
   fixedString : BOOLEAN, wordMatch : BOOLEAN, line : SeqsUpTo(LineChars, MaxLineLen)]

NoMatchInput ==
  [pattern |-> <<>>, isRegex |-> FALSE, fixedString |-> FALSE, wordMatch |-> FALSE,
   line |-> <<>>]

NoMatchOutput == [done |-> FALSE, threw |-> FALSE, source |-> <<>>, matches |-> FALSE]

\* the characters of the class [.*+?^${}()|[\\] of line 149
EscapeClass == {".", "*", "+", "?", "^", "$", "{", "}", "(", ")", "|", "[", "\\"}

\* input.replace(/[.*+?^${}()|[\\]\\]/g, "\\$&"): the class ends at the first
\* "]", so the expression is a character of the class followed by a backslash
\* and a "]"; each such run of three gets a backslash in front
RECURSIVE escapeRegex(_)
escapeRegex(input) ==
  IF input = <<>> THEN <<>>
  ELSE IF Len(input) >= 3 /\ input[1] \in EscapeClass /\ input[2] = "\\" /\ input[3] = "]"
       THEN <<"\\", input[1], input[2], input[3]>> \o escapeRegex(SubSeq(input, 4, Len(input)))
  ELSE <<Head(input)>> \o escapeRegex(Tail(input))

SyntaxError == <<[t |-> "error", c |-> ""]>>

\* new RegExp(source): the terms of the pattern, or a SyntaxError.  Of the
\* syntax only what the characters at hand can spell: "." is any character,
\* a backslash makes the next character a literal (\b is a word boundary), a
\* backslash at the end or a "(" with no ")" is an error, "]" alone is itself.
RECURSIVE RegExp(_)
RegExp(source) ==
  IF source = <<>> THEN <<>>
  ELSE IF Head(source) = "\\"
       THEN IF Len(source) = 1 THEN SyntaxError
            ELSE LET rest == RegExp(SubSeq(source, 3, Len(source)))
                     term == IF source[2] = "b" THEN [t |-> "boundary", c |-> ""]
                             ELSE [t |-> "char", c |-> source[2]]
                 IN IF rest = SyntaxError THEN SyntaxError ELSE <<term>> \o rest
  ELSE IF Head(source) = "(" THEN SyntaxError
  ELSE LET rest == RegExp(Tail(source))
           term == IF Head(source) = "." THEN [t |-> "any", c |-> ""]
                   ELSE [t |-> "char", c |-> Head(source)]
       IN IF rest = SyntaxError THEN SyntaxError ELSE <<term>> \o rest

\* \b at position pos: a word character on one side only
WordBoundary(line, pos) ==
  (pos >= 1 /\ line[pos] \in WordChars) # (pos < Len(line) /\ line[pos + 1] \in WordChars)

RECURSIVE MatchAt(_, _, _)
MatchAt(terms, line, pos) ==
  IF terms = <<>> THEN TRUE
  ELSE IF Head(terms).t = "boundary"
       THEN WordBoundary(line, pos) /\ MatchAt(Tail(terms), line, pos)
  ELSE /\ pos < Len(line)
       /\ Head(terms).t = "any" \/ line[pos + 1] = Head(terms).c
       /\ MatchAt(Tail(terms), line, pos + 1)

\* re.test(line)
RegExpTest(terms, line) == \E pos \in 0..Len(line) : MatchAt(terms, line, pos)

\* lines 138-145.  The lines and patterns have no upper-case letter, so the
\* flags of lines 134-137 change nothing and are left out.
buildMatcher(opts) ==
  LET escaped == IF opts.fixedString \/ opts.wordMatch THEN escapeRegex(opts.pattern)
                 ELSE opts.pattern
      source == IF opts.isRegex THEN opts.pattern
                ELSE IF opts.wordMatch THEN <<"\\", "b">> \o escaped \o <<"\\", "b">>
                ELSE escaped
      re == RegExp(source)
  IN [done |-> TRUE, threw |-> re = SyntaxError, source |-> source,
      matches |-> re # SyntaxError /\ RegExpTest(re, opts.line)]

BuildMatcher ==
  /\ ~mout.done
  /\ min # NoMatchInput
  /\ mout' = buildMatcher(min)
  /\ UNCHANGED <<min, toolVars, patchVars, todoVars, runVars, gitVars>>

MatchNext == BuildMatcher

----------------------------------------------------------------------------
(* git_status.ts, git_diff.ts, git_commit.ts, git_stash.ts; shared.ts: runCaptured *)

GitTools == {"git_status", "git_diff", "git_commit", "git_stash"}

StashActions == {"save", "pop", "list", "drop"}

GitAllowEnvValues == {<<"">>, <<"pwd">>, <<"git">>}

GitDenyEnvValues == {<<"">>, <<"git">>}

\* the arguments of a call and the environment it runs in
GitRequests ==
  {[tool |-> t, cwd |-> (IF cw.given THEN normalizePath(cw) ELSE Cwd), message |-> m,
    action |-> a, allowExecute |-> ae, command |-> "git", envAllow |-> ParseList(al),
    envDeny |-> ParseList(de)] :
     t \in GitTools, cw \in CwdArgs, m \in {"", "msg"}, a \in StashActions,
     ae \in {"", "1"}, al \in GitAllowEnvValues, de \in GitDenyEnvValues}

NoGitCall ==
  [done |-> FALSE, out |-> "", spawned |-> <<>>,
   r |-> [tool |-> "", cwd |-> Cwd, message |-> "", action |-> "", allowExecute |-> "",
          command |-> "git", envAllow |-> {}, envDeny |-> {}]]

\* runCaptured(cmd, cwd): the process is spawned and its output awaited
runCaptured(cmd) == [out |-> "return", spawned |-> cmd]

GitThrow == [out |-> "throw", spawned |-> <<>>]

gitStatusTool(f, r) ==
  IF ensureInsideWorkspace(f, r.cwd, TRUE) # "ok" THEN GitThrow
  ELSE runCaptured(<<"git", "status">>)

gitDiffTool(f, r) ==
  IF ensureInsideWorkspace(f, r.cwd, TRUE) # "ok" THEN GitThrow
  ELSE runCaptured(<<"git", "diff">>)

gitCommitTool(f, r) ==
  IF r.message = "" THEN GitThrow
  ELSE IF ensureInsideWorkspace(f, r.cwd, TRUE) # "ok" THEN GitThrow
  ELSE runCaptured(<<"git", "commit">>)

gitStashTool(f, r) ==
  IF ensureInsideWorkspace(f, r.cwd, TRUE) # "ok" THEN GitThrow
  ELSE IF r.action \in {"save", "pop", "list"} THEN runCaptured(<<"git", "stash", r.action>>)
  ELSE GitThrow

GitHandler(f, r) ==
  CASE r.tool = "git_status" -> gitStatusTool(f, r)
    [] r.tool = "git_diff" -> gitDiffTool(f, r)
    [] r.tool = "git_commit" -> gitCommitTool(f, r)
    [] r.tool = "git_stash" -> gitStashTool(f, r)

GitCall ==
  /\ ~gitcall.done
  /\ \E r \in GitRequests :
       gitcall' = [done |-> TRUE, out |-> GitHandler(fsys, r).out,
                   spawned |-> GitHandler(fsys, r).spawned, r |-> r]
  /\ UNCHANGED <<toolVars, patchVars, todoVars, runVars, matchVars>>

GitReturn ==
  /\ gitcall.done
  /\ gitcall' = NoGitCall
  /\ UNCHANGED <<toolVars, patchVars, todoVars, runVars, matchVars>>

GitNext == GitCall \/ GitReturn

----------------------------------------------------------------------------
(* Specifications *)

\* an empty workspace next to an outside directory; no call is running
Init ==
  /\ fsys = ExecFs
  /\ fsOps = 0
  /\ call = NoCall
  /\ req = NoReq
  /\ epc = "idle"
  /\ child = NoChild
  /\ pipes = NoPipes
  /\ got = NoPipes
  /\ timer = "none"
  /\ audit = <<>>
  /\ appendFailed = FALSE
  /\ result = NoResult
  /\ tin = NoInput
  /\ tout = NoOutput
  /\ jreq = NoJsReq
  /\ jpc = "idle"
  /\ ctx = NoContext
  /\ ip = 1
  /\ jlogs = <<>>
  /\ timedOut = FALSE
  /\ elapsed = 0
  /\ jstatus = "ok"
  /\ executed = FALSE
  /\ host = NoHost
  /\ jout = NoJsOut
  /\ left = FALSE
  /\ gin = NoGrepInput
  /\ gout = NoGrepOutput
  /\ pfs = PatchFs
  /\ pcall = NoPatchCall
  /\ store = NoStore
  /\ todos = <<>>
  /\ tcall = NoTodoCall
  /\ ropts = NoRunOptions
  /\ rpc = "idle"
  /\ step = 0
  /\ attempt = 0
  /\ messages = <<>>
  /\ pending = <<>>
  /\ genlog = NoGenLog
  /\ min = NoMatchInput
  /\ mout = NoMatchOutput
  /\ gitcall = NoGitCall

SpecFs == Init /\ [][FsNext]_vars

SpecExec == Init /\ [][ExecNext]_vars

\* truncateOutput on every text and cap of the bounds
InitTrunc ==
  /\ fsys = ExecFs
  /\ fsOps = 0
  /\ call = NoCall
  /\ req = NoReq
  /\ epc = "idle"
  /\ child = NoChild
  /\ pipes = NoPipes
  /\ got = NoPipes
  /\ timer = "none"
  /\ audit = <<>>
  /\ appendFailed = FALSE
  /\ result = NoResult
  /\ tin \in TruncInputs
  /\ tout = NoOutput
  /\ jreq = NoJsReq
  /\ jpc = "idle"
  /\ ctx = NoContext
  /\ ip = 1
  /\ jlogs = <<>>
  /\ timedOut = FALSE
  /\ elapsed = 0
  /\ jstatus = "ok"
  /\ executed = FALSE
  /\ host = NoHost
  /\ jout = NoJsOut
  /\ left = FALSE
  /\ gin = NoGrepInput
  /\ gout = NoGrepOutput
  /\ pfs = PatchFs
  /\ pcall = NoPatchCall
  /\ store = NoStore
  /\ todos = <<>>
  /\ tcall = NoTodoCall
  /\ ropts = NoRunOptions
  /\ rpc = "idle"
  /\ step = 0
  /\ attempt = 0
  /\ messages = <<>>
  /\ pending = <<>>
  /\ genlog = NoGenLog
  /\ min = NoMatchInput
  /\ mout = NoMatchOutput
  /\ gitcall = NoGitCall

SpecTrunc == InitTrunc /\ [][TruncNext]_vars

\* grep_search on every set of files and options of the bounds
InitEmit ==
  /\ fsys = ExecFs
  /\ fsOps = 0
  /\ call = NoCall
  /\ req = NoReq
  /\ epc = "idle"
  /\ child = NoChild
  /\ pipes = NoPipes
  /\ got = NoPipes
  /\ timer = "none"
  /\ audit = <<>>
  /\ appendFailed = FALSE
  /\ result = NoResult
  /\ tin = NoInput
  /\ tout = NoOutput
  /\ jreq = NoJsReq
  /\ jpc = "idle"
  /\ ctx = NoContext
  /\ ip = 1
  /\ jlogs = <<>>
  /\ timedOut = FALSE
  /\ elapsed = 0
  /\ jstatus = "ok"
  /\ executed = FALSE
  /\ host = NoHost
  /\ jout = NoJsOut
  /\ left = FALSE
  /\ gin \in GrepInputs
  /\ gout = NoGrepOutput
  /\ pfs = PatchFs
  /\ pcall = NoPatchCall
  /\ store = NoStore
  /\ todos = <<>>
  /\ tcall = NoTodoCall
  /\ ropts = NoRunOptions
  /\ rpc = "idle"
  /\ step = 0
  /\ attempt = 0
  /\ messages = <<>>
  /\ pending = <<>>
  /\ genlog = NoGenLog
  /\ min = NoMatchInput
  /\ mout = NoMatchOutput
  /\ gitcall = NoGitCall

SpecEmit == InitEmit /\ [][EmitNext]_vars

SpecPatch == Init /\ [][PatchNext]_vars

SpecTodo == Init /\ [][TodoNext]_vars

SpecRun == Init /\ [][RunNext]_vars

\* every pattern, mode and line buildMatcher is tried on
InitMatch ==
  /\ fsys = ExecFs
  /\ fsOps = 0
  /\ call = NoCall
  /\ req = NoReq
  /\ epc = "idle"
  /\ child = NoChild
  /\ pipes = NoPipes
  /\ got = NoPipes
  /\ timer = "none"
  /\ audit = <<>>
  /\ appendFailed = FALSE
  /\ result = NoResult
  /\ tin = NoInput
  /\ tout = NoOutput
  /\ jreq = NoJsReq
  /\ jpc = "idle"
  /\ ctx = NoContext
  /\ ip = 1
  /\ jlogs = <<>>
  /\ timedOut = FALSE
  /\ elapsed = 0
  /\ jstatus = "ok"
  /\ executed = FALSE
  /\ host = NoHost
  /\ jout = NoJsOut
  /\ left = FALSE
  /\ gin = NoGrepInput
  /\ gout = NoGrepOutput
  /\ pfs = PatchFs
  /\ pcall = NoPatchCall
  /\ store = NoStore
  /\ todos = <<>>
  /\ tcall = NoTodoCall
  /\ ropts = NoRunOptions
  /\ rpc = "idle"
  /\ step = 0
  /\ attempt = 0
  /\ messages = <<>>
  /\ pending = <<>>
  /\ genlog = NoGenLog
  /\ min \in MatchInputs
  /\ mout = NoMatchOutput
  /\ gitcall = NoGitCall

SpecMatch == InitMatch /\ [][MatchNext]_vars

SpecGit == Init /\ [][GitNext]_vars

SpecJs == Init /\ [][JsNext]_vars

\* the interpreter keeps running the code it is given, time passes, and the
\* interpreter keeps calling the interrupt handler while it runs code
SpecJsFair ==
  /\ SpecJs
  /\ WF_vars(InterpreterNext)
  /\ WF_vars(TickStep)
  /\ WF_vars(PollStep)

\* the event loop runs every continuation that is ready, and an armed timer
\* fires; nothing makes a child write or end
SpecExecFair ==
  /\ SpecExec
  /\ WF_vars(HandlerNext)
  /\ WF_vars(TimerFireStep)
  /\ WF_vars(RuntimeDrainStep)

----------------------------------------------------------------------------
(* Properties of the boundary guard, create_file and grep_search  *)

\* the symlink-resolved location of a path, whether or not it exists: links
\* are followed wherever they are met, missing components are kept as named
RECURSIVE Canonical(_, _, _)
Canonical(f, p, fuel) ==
  IF p = <<>> THEN <<>>
  ELSE LET q == Append(Canonical(f, Dirname(p), fuel), Basename(p))
           e == Entry(f, q)
       IN IF e.kind = "link" /\ fuel > 0 THEN Canonical(f, e.target, fuel - 1) ELSE q

\* the longest proper prefix of p that exists
NearestExistingAncestor(f, p) ==
  LET ks == {k \in 0..(Len(p) - 1) : Exists(f, SubSeq(p, 1, k))}
      best == CHOOSE k \in ks : \A j \in ks : j <= k
  IN SubSeq(p, 1, best)

\* C1: for both values of mustExist, the guard raises 'Path outside workspace'
\* for every path whose symlink-resolved location is outside the resolved
\* workspace root, whether or not the target of a link on the way exists.
C1_OutsideAlwaysRejected ==
  call.op = "guard" =>
    (~Inside(fsys, Canonical(fsys, call.abs, LinkFuel))
       => call.result = "Path outside workspace")

\* C2: a path that does not exist, whose nearest existing ancestor resolves
\* inside the workspace, passes the guard with mustExist = false, whatever the
\* names of the missing components; the location validated is the ancestor's
\* real path joined with the missing components.
C2_MissingUnderSafeAncestorAccepted ==
  (/\ call.op = "guard"
   /\ ~call.mustExist
   /\ ~Exists(fsys, call.abs)
   /\ Inside(fsys, realpath(fsys, NearestExistingAncestor(fsys, call.abs))))
    => /\ call.result = "ok"
       /\ LET anc == NearestExistingAncestor(fsys, call.abs)
          IN TargetReal(fsys, call.abs)
               = realpath(fsys, anc) \o SubSeq(call.abs, Len(anc) + 1, Len(call.abs))

\* C3: create_file never creates or changes anything whose real location is
\* outside the workspace root, and writes nothing when the guard rejects.
C3_CreateFileStaysInside ==
  call.op = "create_file" =>
    /\ \A loc \in call.wrote : Inside(fsys, loc)
    /\ (call.guard # "ok" => call.wrote = {})

\* C4: grep_search reads and reports only files whose symlink-resolved
\* location is inside the workspace.
C4_GrepReadsOnlyInside ==
  call.op = "grep_search" =>
    \A loc \in call.read \cup call.reported : Inside(fsys, loc)

----------------------------------------------------------------------------
(* Properties of execute *)

DisabledMessage == "execute tool disabled; set STEWARD_ALLOW_EXECUTE=1 to enable"

\* C5: when STEWARD_ALLOW_EXECUTE is not "1", every execute call raises the
\* 'execute tool disabled' error whatever its other arguments, spawns no
\* process and appends no audit record.
C5_DisabledAlwaysRaises ==
  (req.active /\ req.allowExecute # "1") =>
    /\ epc = "done"
    /\ result = Throw(DisabledMessage)
    /\ req.spawns = 0
    /\ child = NoChild
    /\ audit = <<>>

\* a disabled call whose command is not a string and whose cwd is outside
C5_Witness ==
  /\ req.active
  /\ req.allowExecute # "1"
  /\ req.command = NotAString
  /\ req.cwd = <<"out">>
  /\ result.kind = "throw"

PolicyAllows(r) ==
  /\ r.command \notin r.envDeny
  /\ r.envAllow = {} \/ r.command \in r.envAllow

\* C6: in every mode, execute spawns a process only if the command is not in
\* the deny-list and the allow-list is empty or holds the command; a command
\* in both lists is rejected.
C6_SpawnOnlyIfPolicyAllows ==
  req.active =>
    /\ (req.spawns > 0 \/ child.state # "none") => PolicyAllows(req)
    /\ (req.allowExecute = "1" /\ req.command \in req.envAllow \cap req.envDeny)
         => (result.kind = "throw" /\ req.spawns = 0)

\* a command of a non-empty allow-list was spawned in the background
C6_Witness ==
  /\ req.active
  /\ req.background
  /\ req.envAllow # {}
  /\ child.state = "running"
  /\ result.text = "started pid"

Buffered(r) == r.active /\ ~r.background /\ ~r.stream

\* C7: in buffered mode with an effective timeout, a child still running when
\* the timeout elapses is killed, the call then returns a result that reports
\* a non-zero exit or an error, and the call never stays waiting.
C7_TimeoutKillsAndReturns ==
  /\ [][(timer = "armed" /\ timer' = "fired" /\ child.state = "running")
          => (child'.state = "exited" /\ child'.killed)]_vars
  /\ [](timer = "fired" => child.state # "running")
  /\ []((epc = "done" /\ Buffered(req) /\ child.killed)
          => (result.kind = "return" /\ (result.exitCode # 0 \/ result.error)))
  /\ ((Buffered(req) /\ Truthy(req.effectiveTimeout) /\ epc # "done") ~> (epc = "done"))

\* the timer fired on a running child that would never have ended, and the
\* call returned the exit code of the kill
C7_Witness ==
  /\ Buffered(req)
  /\ timer = "fired"
  /\ child.killed /\ ~child.exits
  /\ epc = "done"
  /\ result.exitCode = SigtermCode

\* the child has output left to write and every pipe it needs is full
ChildBlocked ==
  /\ child.state = "running"
  /\ child.toOut > 0 \/ child.toErr > 0
  /\ child.toOut > 0 => pipes.out = PipeCap
  /\ child.toErr > 0 => pipes.err = PipeCap

\* C8: in streamed mode both pipes are drained while the child runs: no state
\* is reachable in which the child is blocked writing to a full pipe that
\* nothing reads while execute waits for the child to exit.
C8_StreamNeverStuck ==
  ~(epc = "stream_exited" /\ ChildBlocked /\ ~child.eager)

AllowListPasses(r) ==
  /\ r.allowExecute = "1"
  /\ r.command # NotAString
  /\ r.envAllow = {} \/ r.command \in r.envAllow

\* C10: with auditing enabled, every execute call that gets past the enable
\* flag and the allow-list check appends exactly one line to the audit log
\* before it returns or raises (the log being writable).
C10_OneAuditLinePerCall ==
  (epc = "done" /\ req.auditEnabled /\ AllowListPasses(req) /\ ~appendFailed)
    => Len(audit) = 1

----------------------------------------------------------------------------
(* Properties of truncateOutput *)

RECURSIVE Utf8Len(_)
Utf8Len(text) == IF text = <<>> THEN 0 ELSE Utf8Width(Head(text)) + Utf8Len(Tail(text))

\* C9: truncateOutput(s, N) returns s unchanged when its UTF-8 length is at
\* most N; otherwise the result is at most N bytes plus the marker long and
\* its kept part ends on a whole character of s.
C9_TruncationUtf8Safe ==
  tout.done =>
    IF Utf8Len(tin.body) <= tin.maxBytes
    THEN tout.text = tin.body /\ ~tout.marked
    ELSE /\ tout.marked
         /\ Utf8Len(tout.text) + MarkerLen <= tin.maxBytes + MarkerLen
         /\ IsPrefix(tout.text, tin.body)

----------------------------------------------------------------------------
(* Properties of execute: errors *)

\* what a finished call hands back, from the request, the child and what was
\* read from it alone: nothing of the audit log enters
Outcome(r, ch, g) ==
  IF Gate(r) # "ok" THEN Throw(Gate(r))
  ELSE IF CwdGuard(r) # "ok" THEN Throw(CwdGuard(r))
  ELSE IF ch.state = "none"
       THEN IF r.background \/ r.stream
            THEN Throw("spawn failed")
            ELSE [NoResult EXCEPT !.kind = "return", !.text = "error: spawn failed",
                                  !.error = TRUE]
  ELSE IF r.background THEN [NoResult EXCEPT !.kind = "return", !.text = "started pid"]
  ELSE IF r.stream
       THEN [NoResult EXCEPT !.kind = "return", !.text = "output",
                             !.output = g.out + g.err,
                             !.truncated = OutputTruncated(g.out + g.err, r.maxOutputBytes)]
  ELSE [NoResult EXCEPT !.kind = "return", !.text = "exit", !.exitCode = ch.code,
                        !.output = g.out + g.err,
                        !.truncated = OutputTruncated(g.out + g.err, r.maxOutputBytes)]

\* C11: a failed append of the audit record never changes the outcome of
\* execute: the result (or the error raised) of a finished call is fixed by
\* the request and by what the child did, whether the append succeeded or
\* failed.
C11_AuditFailureKeepsOutcome ==
  epc = "done" => result = Outcome(req, child, got)

\* a buffered call whose command ran and whose audit append failed has returned
C11_Witness ==
  /\ epc = "done"
  /\ appendFailed
  /\ Buffered(req)
  /\ child.state = "exited"
  /\ result.kind = "return" /\ result.text = "exit"

\* C12: once a call has passed the enable flag, the policy lists and the cwd
\* guard, a command that cannot be spawned and a timeout are handed back as a
\* tool result, with the error indicator set for the spawn failure, and never
\* raised, in buffered, streamed and background mode alike.
C12_SpawnFailureAndTimeoutReturned ==
  (epc = "done" /\ Gate(req) = "ok" /\ CwdGuard(req) = "ok")
    => /\ result.kind = "return"
       /\ child.state = "none" => result.error

----------------------------------------------------------------------------
(* Properties of run_js *)

\* C13: every run_js call eventually ends, whatever the script, one that
\* spins forever in its body or in a deferred job included; once the
\* interrupt handler has seen the deadline passed, neither evalCode nor the
\* drain loop runs any longer.
C13_RunJsAlwaysReturns ==
  /\ [](timedOut => jpc = "done")
  /\ (jpc \in {"load", "eval", "drain"}) ~> (jpc = "done")

\* a script that spins forever in its body was stopped past its deadline
C13_Witness ==
  /\ jpc = "done"
  /\ jreq.code.ops = <<"loop">>
  /\ timedOut
  /\ elapsed > jreq.timeoutMs
  /\ jout.kind = "return"

\* the result texts of a script that threw and of a deferred job that failed
Failures == {"thrown", "not a function", "job failed", "host error"}

\* C14: the status reported is "timeout" whenever the deadline was found
\* passed, in the main body or while draining the deferred jobs; otherwise
\* "error" if the script threw or a deferred job failed; otherwise "ok".
C14_StatusOrder ==
  (jpc = "done" /\ jout.kind = "return")
    => jout.status = (IF timedOut THEN "timeout"
                      ELSE IF jout.result \in Failures THEN "error"
                      ELSE "ok")

\* C15: every run_js call creates one new runtime and one new context and
\* disposes both before it ends, on every exit path, an exception thrown
\* during setup, evaluation or draining included: nothing the call created
\* is live once it has returned or raised.
C15_RuntimeAlwaysDisposed ==
  jpc = "done" => ctx.runtime # "live" /\ ctx.context # "live"

\* C16: what a run_js call puts out depends on its own arguments only:
\* whatever globals, pending jobs or console lines earlier calls left, the
\* script starts from the state built from the request, every global it
\* sees defined by a script was defined by itself, and every console line
\* is one it printed.
C16_NoLeakBetweenCalls ==
  /\ (jpc = "eval" /\ ip = 1)
       => ctx.globals = SetupGlobals(jreq) /\ ctx.jobs = <<>> /\ jlogs = <<>>
  /\ \A i \in 1..Len(jlogs) :
       jlogs[i]["x"] = "script" => \E j \in 1..(ip - 1) : jreq.code.ops[j] = "set"
  /\ Len(jlogs) <= CountOp(jreq.code.ops, "probe")

\* after a call that left a global of its own, a later call has looked at
\* the globals and found it undefined
C16_Witness ==
  /\ left
  /\ jpc = "done"
  /\ jout.kind = "return"
  /\ Len(jout.console) = 1
  /\ jout.console[1]["x"] = "undefined"

\* the running call has called the fetch of the network bridge
StartedFetch ==
  /\ ctx.globals["fetch"] = "bridge"
  /\ \E j \in 1..(ip - 1) : jreq.code.ops[j] = "fetch"

\* C17: when run_js returns, no host timer or callback started by the call
\* (the abort timer and the continuations of a fetch) is still pending.
C17_NoHostCallbackLeft ==
  (jpc = "done" /\ StartedFetch) => host.armed + host.aborted = 0

\* the context of the running call is there for its script
ContextLive == jpc \in {"eval", "drain"}

\* C18: in the global scope of a script process, require and fs are always
\* undefined, and fetch is undefined unless the call set allowNetwork; fetch
\* is the only binding that reaches the host.
C18_OnlyFetchReachesHost ==
  ContextLive =>
    /\ \A n \in {"process", "require", "fs"} : ctx.globals[n] = "undefined"
    /\ ~jreq.allowNetwork => ctx.globals["fetch"] = "undefined"
    /\ \A n \in GlobalNames : ctx.globals[n] = "bridge" => n = "fetch"

\* a script has looked at the globals of a call made with allowNetwork off
\* on a host that could have given it fetch
C18_Witness ==
  /\ ContextLive
  /\ ~jreq.allowNetwork /\ jreq.fetchCapable
  /\ jlogs # <<>>
  /\ jlogs[1]["fetch"] = "undefined" /\ jlogs[1]["process"] = "undefined"

----------------------------------------------------------------------------
(* Properties of grep_search's output *)

RECURSIVE EmittedBefore(_, _)
EmittedBefore(perFile, k) ==
  IF k <= 1 THEN 0 ELSE Len(perFile[k - 1].lines) + EmittedBefore(perFile, k - 1)

\* C19: grep_search never returns more entries than maxResults, whatever the
\* context, separator and heading options, and no file is visited once the
\* cap is reached.
C19_ResultCap ==
  gout.done =>
    /\ Len(gout.output) <= gin.o.maxResults
    /\ \A k \in 1..gout.visited : EmittedBefore(gout.perFile, k) < gin.o.maxResults

\* the line numbers of the line entries of a record, in the order emitted
RECURSIVE LineNumbers(_)
LineNumbers(entries) ==
  IF entries = <<>> THEN <<>>
  ELSE (IF Head(entries).kind = "line" THEN <<Head(entries).line>> ELSE <<>>)
         \o LineNumbers(Tail(entries))

StrictlyIncreasing(s) == \A i \in 1..(Len(s) - 1) : s[i] < s[i + 1]

NeverDecreasing(s) == \A i \in 1..(Len(s) - 1) : s[i] <= s[i + 1]

\* C20: for each file the line numbers emitted are strictly increasing, so
\* no line is emitted twice even when the windows of successive matches
\* overlap, and the file's lastLineEmitted never decreases.
C20_LinesStrictlyIncreasing ==
  gout.done =>
    \A k \in 1..Len(gout.perFile) :
      /\ StrictlyIncreasing(LineNumbers(gout.perFile[k].lines))
      /\ NeverDecreasing(gout.perFile[k].lasts)

\* two successive matches with overlapping windows were emitted: lines 1 to
\* 3 once each
C20_Witness ==
  /\ gout.done
  /\ gin.files = <<<<TRUE, TRUE, FALSE>>>>
  /\ gin.o.afterContext = 1 /\ gin.o.beforeContext = 1
  /\ Len(gout.perFile) = 1
  /\ gout.perFile[1].matchCount = 2
  /\ LineNumbers(gout.perFile[1].lines) = <<1, 2, 3>>

\* the 0-based indices of the matching lines of a file, in order
RECURSIVE MatchIndices(_, _)
MatchIndices(lines, idx) ==
  IF idx >= Len(lines) THEN <<>>
  ELSE (IF lines[idx + 1] THEN <<idx>> ELSE <<>>) \o MatchIndices(lines, idx + 1)

WindowStart(idx, o) == IF idx - o.beforeContext < 0 THEN 0 ELSE idx - o.beforeContext

WindowEnd(lines, idx, o) ==
  IF idx + o.afterContext + 1 > Len(lines) THEN Len(lines) ELSE idx + o.afterContext + 1

\* the j-th window of a file starts after the last line of the window before
StartsAfterLast(lines, ms, j, o) ==
  j > 1 /\ WindowStart(ms[j], o) > WindowEnd(lines, ms[j - 1], o) - 1

\* what the first n windows of a file come to: a separator before a window
\* exactly when lines were emitted and the window starts after the last one
RECURSIVE ExpectedLines(_, _, _, _, _)
ExpectedLines(file, lines, ms, n, o) ==
  IF n = 0 THEN <<>>
  ELSE LET from == IF n = 1 THEN WindowStart(ms[n], o)
                   ELSE MathMax(WindowStart(ms[n], o), WindowEnd(lines, ms[n - 1], o))
           to == WindowEnd(lines, ms[n], o) - 1
       IN ExpectedLines(file, lines, ms, n - 1, o)
            \o (IF o.withContextSeparators /\ StartsAfterLast(lines, ms, n, o)
                THEN <<SepEntry(file)>> ELSE <<>>)
            \o [i \in 1..(to - from + 1) |-> LineEntry(file, from + i - 1)]

\* the entries without their labels
Unlabelled(entries) == [i \in 1..Len(entries) |-> [entries[i] EXCEPT !.tag = ""]]

\* zero, one, two, three, four and the empty line after the last newline,
\* with one|three as the pattern
FiveLines == <<FALSE, TRUE, FALSE, TRUE, FALSE, FALSE>>

\* C21: with withContextSeparators a "--" entry comes before a window exactly
\* when the file already has emitted lines and the window starts after the
\* last emitted line: never before the first window of a file, never when
\* the window overlaps what was emitted.  For zero, one, two, three, four
\* with one|three, beforeContext 1 and afterContext 0 the output is zero,
\* one, --, two, three.
C21_SeparatorExactlyBetweenWindows ==
  gout.done =>
    /\ \A k \in 1..Len(gout.perFile) :
         LET rec == gout.perFile[k]
             lines == gin.files[rec.file]
         IN Unlabelled(rec.lines) = ExpectedLines(rec.file, lines, MatchIndices(lines, 0),
                                                  rec.matchCount, gin.o)
    /\ ( /\ gin.files = <<FiveLines>>
         /\ gin.o.beforeContext = 1 /\ gin.o.afterContext = 0
         /\ gin.o.withContextSeparators /\ gin.o.maxResults = MaxResultsArg
         /\ ~gin.o.withHeadings /\ ~gin.o.withCounts )
       => Unlabelled(gout.output) = <<LineEntry(1, 0), LineEntry(1, 1), SepEntry(1),
                                      LineEntry(1, 2), LineEntry(1, 3)>>

\* the search of the example was made and a separator came out
C21_Witness ==
  /\ gout.done
  /\ gin.files = <<FiveLines>>
  /\ gin.o.beforeContext = 1 /\ gin.o.afterContext = 0
  /\ gin.o.withContextSeparators /\ gin.o.maxResults = MaxResultsArg
  /\ Len(gout.output) = 5
  /\ gout.output[3].kind = "sep"

----------------------------------------------------------------------------
(* Properties of apply_patch *)

\* the patches a call works on: the well-formed entries of a batch, or the one
\* patch of a single call
PatchesOf(args) == IF args.hasBatch THEN FilterPatches(args.patches) ELSE args.patches

\* the patch passes the guard, its file is read and the hunk finds its place
PatchApplies(f, entry) ==
  /\ entry.wellFormed
  /\ ensureInsideWorkspace(f, normalizePath(entry.path), TRUE) = "ok"
  /\ ReadFile(f, normalizePath(entry.path)) # ENOENT
  /\ applyPatch(ReadFile(f, normalizePath(entry.path)), entry.patch) # NotApplied

\* C22: apply_patch writes a file only when dryRun is not set and every patch
\* of the call applied: a batch with one patch that fails to apply or one path
\* the guard rejects writes no file, and a dry run writes no file at all.
C22_PatchAllOrNothing ==
  pcall.done /\ (pcall.wrote # <<>> \/ pfs # pcall.before)
    => /\ ~pcall.args.dryRun
       /\ \A i \in 1..Len(PatchesOf(pcall.args)) :
            PatchApplies(pcall.before, PatchesOf(pcall.args)[i])

\* a batch of two whose first patch applies and whose second does not, and a
\* batch of two that was written
C22_Witness ==
  /\ pcall.done /\ pcall.args.hasBatch /\ ~pcall.args.dryRun
  /\ Len(PatchesOf(pcall.args)) = 2
  /\ PatchApplies(pcall.before, PatchesOf(pcall.args)[1])
  /\ ~PatchApplies(pcall.before, PatchesOf(pcall.args)[2])
  /\ pcall.out \in {"error", "throw"}
  /\ pfs = pcall.before

\* the patches of the batch that name the file abs, applied one after the other
RECURSIVE ApplyInOrder(_, _, _)
ApplyInOrder(source, patches, abs) ==
  IF patches = <<>> \/ source = NotApplied THEN source
  ELSE ApplyInOrder(IF normalizePath(Head(patches).path) = abs
                    THEN applyPatch(source, Head(patches).patch) ELSE source,
                    Tail(patches), abs)

\* C29: after a successful batch apply_patch every patch of the batch is
\* reflected in the files: when two entries name the same file, its final
\* content is the result of applying both patches in order.
C29_BatchAppliesEveryPatch ==
  pcall.done /\ pcall.args.hasBatch /\ pcall.out = "Patched"
    => \A i \in 1..Len(pcall.wrote) :
         ReadFile(pfs, pcall.wrote[i])
           = ApplyInOrder(ReadFile(pcall.before, pcall.wrote[i]), PatchesOf(pcall.args),
                          pcall.wrote[i])

----------------------------------------------------------------------------
(* Properties of manage_todo *)

\* what list shows for the abstract list
AbstractRender(list) ==
  IF list = <<>> THEN <<"No todos">>
  ELSE [i \in 1..Len(list) |-> <<i, ". [", list[i].status, "] ", list[i].title>>]

\* C23: after any sequence of add / done / set_status calls from an empty
\* store, list renders the abstract list (items in the order added, ids
\* 1, 2, 3, ... never reused, each as '{id}. [{status}] {title}' with the
\* status the calls gave it), and a call that raises leaves the store as it was.
C23_TodoRefinesAbstractList ==
  /\ TodoList(store, readTodo(store)).output = AbstractRender(todos)
  /\ \A i \in 1..Len(readTodo(store).items) :
       /\ readTodo(store).items[i].id = i
       /\ readTodo(store).items[i].id < readTodo(store).nextId
  /\ tcall.done /\ tcall.out = "throw" => store = tcall.before

\* two items, the second one just set to blocked
C23_Witness ==
  /\ tcall.done /\ tcall.out = "ok" /\ tcall.args.action = "set_status"
  /\ Len(todos) = 2
  /\ todos[1].status = "done"
  /\ todos[2].status = "blocked"
  /\ TodoList(store, readTodo(store)).output
       = <<<<1, ". [", "done", "] ", todos[1].title>>,
           <<2, ". [", "blocked", "] ", todos[2].title>>>>

----------------------------------------------------------------------------
(* Properties of the agent loop *)

\* C24: runSteward makes at most maxSteps model requests (16 when the option
\* is not given), each attempted at most retries + 1 times, and then stops,
\* even if every response contains tool calls.
C24_BoundedModelRequests ==
  LET maxSteps == IF ropts.maxSteps.set THEN ropts.maxSteps.n ELSE 16
      retries == IF ropts.retries.set THEN ropts.retries.n ELSE 0
  IN /\ genlog.requests <= maxSteps
     /\ genlog.attempts <= retries + 1
     /\ rpc \in {"model", "tools"} => genlog.requests = step + 1 /\ step < maxSteps

\* a run of two steps whose responses both held tool calls, stopped by the limit
C24_Witness ==
  /\ rpc = "returned"
  /\ genlog.ended = "max steps"
  /\ ropts.maxSteps = Given(2)
  /\ genlog.requests = 2
  /\ Len(messages) > 1
  /\ messages[1].role = "assistant"

\* the tool messages after the assistant message answer its first n calls
AnswersFirst(n) ==
  /\ Len(messages) = 1 + n
  /\ \A i \in 1..n :
       /\ messages[1 + i].role = "tool"
       /\ messages[1 + i].tool_call_id = messages[1].tool_calls[i].id

\* C28: each tool call of a model response is answered by exactly one tool
\* message carrying that call's id, in call order and before the next model
\* request, whether the handler returned, raised, or the tool is unknown; a
\* tool failure never ends the run.
C28_EveryToolCallAnswered ==
  /\ [](/\ rpc = "tools"
          => /\ messages[1].role = "assistant"
             /\ Len(pending) <= Len(messages[1].tool_calls)
             /\ AnswersFirst(Len(messages[1].tool_calls) - Len(pending))
        /\ rpc \in {"model", "returned"} /\ messages[1].role = "assistant"
          => AnswersFirst(Len(messages[1].tool_calls)))
  /\ [][rpc = "tools"
          => \/ rpc' \in {"tools", "model"}
             \/ rpc' = "returned" /\ genlog'.ended = "max steps" /\ pending' = <<>>]_vars

\* a failed call and a call of an unknown tool, both answered, and the next
\* model request under way
C28_Witness ==
  /\ rpc = "model"
  /\ step = 1
  /\ Len(messages) = 3
  /\ messages[1].role = "assistant"
  /\ messages[1].tool_calls
       = <<[id |-> "call_1", name |-> "read_file"], [id |-> "call_2", name |-> "no_such_tool"]>>
  /\ messages[2] = ToolMessage("error", [id |-> "call_1", name |-> "read_file"])
  /\ messages[3] = ToolMessage("Unknown tool", [id |-> "call_2", name |-> "no_such_tool"])

----------------------------------------------------------------------------
(* Properties of execute: the timeout of streamed mode *)

Streamed(r) == r.active /\ ~r.background /\ r.stream

\* C25: in streamed mode a timeout given by the caller or the configured
\* default applies as in buffered mode: a child still running when it elapses
\* is killed and the call returns.
C25_StreamTimeoutKillsAndReturns ==
  (Streamed(req) /\ Truthy(req.effectiveTimeout) /\ epc # "done") ~> (epc = "done")

\* C27: with withContextLabels every emitted line that matches the pattern is
\* tagged M and every emitted line that does not is tagged C, a matching line
\* inside the after-context window of an earlier match included.
C27_LabelsFollowTheMatch ==
  gout.done /\ gin.o.withContextLabels
    => \A i \in 1..Len(gout.output) :
         gout.output[i].kind = "line"
           => gout.output[i].tag
                = (IF gin.files[gout.output[i].file][gout.output[i].line] THEN "M" ELSE "C")

----------------------------------------------------------------------------
(* Properties of buildMatcher *)

\* the line holds the text of the pattern, between word boundaries if asked
ContainsLiteral(line, pattern, wordMatch) ==
  \E pos \in 0..(Len(line) - Len(pattern)) :
     /\ SubSeq(line, pos + 1, pos + Len(pattern)) = pattern
     /\ wordMatch => WordBoundary(line, pos) /\ WordBoundary(line, pos + Len(pattern))

\* C26: with fixedString or wordMatch set and regex not set, buildMatcher
\* treats the pattern as a literal: a line matches only if it contains the
\* text of the pattern (between word boundaries with wordMatch), and no
\* pattern makes the construction of the matcher fail.
C26_LiteralPattern ==
  mout.done /\ ~min.isRegex /\ (min.fixedString \/ min.wordMatch)
    => /\ ~mout.threw
       /\ mout.matches => ContainsLiteral(min.line, min.pattern, min.wordMatch)

----------------------------------------------------------------------------
(* Properties of the git tools *)

\* C30: no tool handler starts an external process unless
\* STEWARD_ALLOW_EXECUTE is "1" and the command passes the allow and deny
\* lists: git_status, git_diff, git_commit and git_stash are under the same
\* gate as execute.
C30_GitToolsBehindTheGate ==
  gitcall.done /\ gitcall.spawned # <<>> => Gate(gitcall.r) = "ok"

====
